---- MODULE Spec2Model ----
(***************************************************************************)
(* A model of the VA Form 21-0966 filler: the field-tree traversal of      *)
(* va_form_filler_complete.py (find_and_fill_field, fill_form), the value  *)
(* mapping (create_field_mapping), the main pipeline, and the path index   *)
(* of field_value_inspector.py (extract_values_recursive).                 *)
(*                                                                         *)
(* A Python str is a sequence of characters; a character is a TLA+ string  *)
(* of one character ("a", "/", "(").  The fixed segment names of the form  *)
(* ("Page_1[0]", "Veterans_First_Name[0]") are written as one word: such a *)
(* word stands for its run of characters, none of which is a character the *)
(* code inspects ('.', '/', '(', ')', '<', '>', '-').                      *)
(*                                                                         *)
(* An absent attribute (None) and an empty one are both the empty          *)
(* sequence: the code only ever tests these attributes for truthiness.     *)
(***************************************************************************)
EXTENDS Naturals, Integers, Sequences, FiniteSets, TLC

VARIABLES
    pc,             \* position of the running program
    json_input,     \* what load_json_input will find in the JSON file
    blank,          \* what PdfReader will find in the blank PDF file
    today,          \* datetime.now() as <<month, day, year>>
    data,           \* main's data
    pdf_reader,     \* filler.pdf_reader: the loaded document, its field tree mutated in place
    field_mapping,  \* the dict handed to fill_form, as its items in insertion order
    i,              \* fill_form: index of the next item of field_mapping.items()
    filled_count,   \* fill_form's filled_count
    failed_count,   \* fill_form's failed_count
    fill_ok,        \* fill_form's return value
    report,         \* the lines fill_form printed per entry: <<key, outcome>>
    pdf_before,     \* the document as it was when fill_form was entered
    calls,          \* the filler methods called so far, in order
    output,         \* the field tree save_filled_form wrote to disk (<<>>: nothing written)
    field_values,   \* field_value_inspector's dict: full_path -> field_info
    visited,        \* the fields the inspector went through, each with the path it computed
    arg,            \* the argument of the function that is applied on its own
    result          \* what the function returned: one value per application

vars == <<pc, json_input, blank, today, data, pdf_reader, field_mapping, i,
          filled_count, failed_count, fill_ok, report, pdf_before, calls,
          output, field_values, visited, arg, result>>

-----------------------------------------------------------------------------
(* Python values *)

None == <<>>

\* bool(x) of a str, a list or None
Truthy(x) == x # <<>>

Dot == <<".">>

\* s.startswith(p), s.endswith(p)
StartsWith(s, p) == Len(s) >= Len(p) /\ SubSeq(s, 1, Len(p)) = p

EndsWith(s, p) == Len(s) >= Len(p) /\ SubSeq(s, Len(s) - Len(p) + 1, Len(s)) = p

\* s[1:-1]
Slice1m1(s) == SubSeq(s, 2, Len(s) - 1)

\* value.replace('/', ''): every '/' of the value is removed
ReplaceSlash(value) == SelectSeq(value, LAMBDA c : c # "/")

\* str(n) of a non-negative int, as characters
RECURSIVE StrOfNat(_)
StrOfNat(n) ==
    LET d == <<"0", "1", "2", "3", "4", "5", "6", "7", "8", "9">>
    IN  IF n < 10 THEN <<d[n + 1]>> ELSE StrOfNat(n \div 10) \o <<d[(n % 10) + 1]>>

-----------------------------------------------------------------------------
(* decode_unicode_field_name *)

HexDigits ==
    {"0", "1", "2", "3", "4", "5", "6", "7", "8", "9",
     "A", "B", "C", "D", "E", "F", "a", "b", "c", "d", "e", "f"}

HexVal(c) ==
    CASE c = "0" -> 0 [] c = "1" -> 1 [] c = "2" -> 2 [] c = "3" -> 3
      [] c = "4" -> 4 [] c = "5" -> 5 [] c = "6" -> 6 [] c = "7" -> 7
      [] c = "8" -> 8 [] c = "9" -> 9
      [] c \in {"A", "a"} -> 10 [] c \in {"B", "b"} -> 11
      [] c \in {"C", "c"} -> 12 [] c \in {"D", "d"} -> 13
      [] c \in {"E", "e"} -> 14 [] c \in {"F", "f"} -> 15

\* s.strip() for the one whitespace character of the model, the blank
RECURSIVE StripBlanks(_)
StripBlanks(s) ==
    IF s # <<>> /\ s[1] = " " THEN StripBlanks(Tail(s))
    ELSE IF s # <<>> /\ s[Len(s)] = " " THEN StripBlanks(SubSeq(s, 1, Len(s) - 1))
    ELSE s

\* int(hex_char, 16) reads, between blanks, an optional sign, an optional
\* 0x or 0X (which an underscore may follow) and hex digits, with single
\* underscores between digits.
AfterSign(s) == IF s # <<>> /\ s[1] \in {"+", "-"} THEN Tail(s) ELSE s

AfterUnderscore(d) == IF d # <<>> /\ d[1] = "_" THEN Tail(d) ELSE d

AfterPrefix(u) ==
    IF Len(u) >= 2 /\ u[1] = "0" /\ u[2] \in {"x", "X"}
    THEN AfterUnderscore(SubSeq(u, 3, Len(u)))
    ELSE u

\* what follows the sign, and what follows the prefix
Unsigned(hex_char) == AfterSign(StripBlanks(hex_char))

IntDigits(hex_char) == AfterPrefix(Unsigned(hex_char))

DigitsOk(d) ==
    /\ d # <<>>
    /\ \A k \in 1..Len(d) : d[k] \in HexDigits \cup {"_"}
    /\ d[1] # "_" /\ d[Len(d)] # "_"
    /\ \A k \in 1..(Len(d) - 1) : ~(d[k] = "_" /\ d[k + 1] = "_")

\* int(hex_char, 16) does not raise ValueError
IntOk(hex_char) == DigitsOk(IntDigits(hex_char))

\* the number a run of hex digits denotes
RECURSIVE HexNat(_)
HexNat(digits) ==
    IF digits = <<>> THEN 0
    ELSE 16 * HexNat(SubSeq(digits, 1, Len(digits) - 1)) + HexVal(digits[Len(digits)])

Signed(s, n) == IF s[1] = "-" THEN 0 - n ELSE n

\* int(hex_char, 16), when it does not raise
Int16(hex_char) ==
    Signed(StripBlanks(hex_char),
           HexNat(SelectSeq(IntDigits(hex_char), LAMBDA c : c # "_")))

\* chr(char_code) does not raise ValueError: a unit of four characters
\* never exceeds the largest code point
ChrOk(char_code) == char_code >= 0

\* chr(char_code): the characters the model names, and U+<code> for any other
Chr(char_code) ==
    CASE char_code = 40 -> "("
      [] char_code = 41 -> ")"
      [] char_code = 46 -> "."
      [] char_code = 47 -> "/"
      [] char_code = 60 -> "<"
      [] char_code = 62 -> ">"
      [] char_code = 69 -> "E"
      [] char_code = 70 -> "F"
      [] char_code = 97 -> "a"
      [] char_code = 98 -> "b"
      [] OTHER -> "U+" \o ToString(char_code)

\* the loop of lines 337-341: ok = FALSE when int() or chr() raised
RECURSIVE DecodeUnits(_)
DecodeUnits(hex_content) ==
    IF hex_content = <<>> THEN [ok |-> TRUE, decoded |-> <<>>]
    ELSE LET n == IF Len(hex_content) < 4 THEN Len(hex_content) ELSE 4
             hex_char == SubSeq(hex_content, 1, n)
             rest == DecodeUnits(SubSeq(hex_content, n + 1, Len(hex_content)))
         IN  IF IntOk(hex_char) /\ ChrOk(Int16(hex_char)) /\ rest.ok
             THEN [ok |-> TRUE, decoded |-> <<Chr(Int16(hex_char))>> \o rest.decoded]
             ELSE [ok |-> FALSE, decoded |-> <<>>]

\* a decoding that drops the two ends of every token
DecodeWithoutEnds(field_str) ==
    IF Len(field_str) >= 2 THEN Slice1m1(field_str) ELSE field_str

\* lines 330-349 (and enhanced_field_discovery.py 12-38, the same text)
decode_unicode_field_name(field_str) ==
    IF StartsWith(field_str, <<"<", "F", "E", "F", "F">>) /\ EndsWith(field_str, <<">">>)
    THEN LET r == DecodeUnits(SubSeq(field_str, 6, Len(field_str) - 1))
         IN  IF r.ok THEN r.decoded ELSE field_str
    ELSE IF StartsWith(field_str, <<"(">>) /\ EndsWith(field_str, <<")">>)
         THEN Slice1m1(field_str)
         ELSE field_str

-----------------------------------------------------------------------------
(* The field tree: a list of field dictionaries, each with its /T, /FT,    *)
(* /Ff, /V, /DV, /AS, /MaxLen, /Opt and /Kids (a list of field             *)
(* dictionaries again).  A name or a number is the str pdfrw holds for it. *)

Btn == <<"/", "Btn">>
Tx == <<"/", "Tx">>
Ch == <<"/", "Ch">>

\* a field dictionary with no attribute at all
NoField ==
    [T |-> None, FT |-> None, Ff |-> None, V |-> None, DV |-> None, AS |-> None,
     MaxLen |-> None, Opt |-> <<>>, Kids |-> <<>>]

\* a PdfReader: whether the file was read, whether its Root has an /AcroForm,
\* whether that has /Fields, and the field tree
Reader(loaded, acroform, hasfields, fields) ==
    [loaded |-> loaded, AcroForm |-> acroform, HasFields |-> hasfields,
     Fields |-> fields]

NoReader == Reader(FALSE, FALSE, FALSE, <<>>)

\* an item of a value map
Item(name, value) == [name |-> name, value |-> value]

\* PdfName(s): the name object /s, a str whose text is '/' + s
PdfName(s) == <<"/">> \o s

-----------------------------------------------------------------------------
(* find_and_fill_field *)

\* a path that forgets the parent's: a field is matched by its own name
FullPathLocal(parent_path, field_name) == field_name

\* lines 303-306: the full path of a field
FullPath(parent_path, field_name) ==
    IF Truthy(parent_path) THEN parent_path \o Dot \o field_name ELSE field_name

\* lines 311-316: the write to the target field
SetFieldValue(field, value) ==
    IF field.FT = Btn
    THEN [field EXCEPT !.V = PdfName(ReplaceSlash(value)),
                       !.AS = PdfName(ReplaceSlash(value))]
    ELSE [field EXCEPT !.V = value]

\* a search that goes on after a match: every field with the path is written
RECURSIVE FindAndFillEveryMatch(_, _, _, _)
FindAndFillEveryMatch(fields, target_field_name, value, parent_path) ==
    IF fields = <<>> THEN [found |-> FALSE, fields |-> <<>>]
    ELSE
    LET field == Head(fields)
        next == FindAndFillEveryMatch(Tail(fields), target_field_name, value,
                                      parent_path)
    IN  IF ~Truthy(field.T)
        THEN [found |-> next.found, fields |-> <<field>> \o next.fields]
        ELSE
        LET full_path == FullPath(parent_path, decode_unicode_field_name(field.T))
            kids == FindAndFillEveryMatch(field.Kids, target_field_name, value,
                                          full_path)
            written == IF full_path = target_field_name
                       THEN SetFieldValue(field, value) ELSE field
        IN  [found |-> full_path = target_field_name \/ kids.found \/ next.found,
             fields |-> <<[written EXCEPT !.Kids = kids.fields]>> \o next.fields]

\* the result is <<found, fields>>: the return value and the list after the
\* in-place writes
RECURSIVE find_and_fill_field(_, _, _, _)
find_and_fill_field(fields, target_field_name, value, parent_path) ==
    IF fields = <<>> THEN [found |-> FALSE, fields |-> <<>>]
    ELSE
    LET field == Head(fields)
        \* "continue", or the end of the loop body: on to the next field
        next == find_and_fill_field(Tail(fields), target_field_name, value, parent_path)
        continue == [found |-> next.found, fields |-> <<field>> \o next.fields]
    IN  IF ~Truthy(field.T) THEN continue
        ELSE
        LET field_name == decode_unicode_field_name(field.T)
            full_path == FullPath(parent_path, field_name)
        IN  IF full_path = target_field_name
            THEN [found |-> TRUE,
                  fields |-> <<SetFieldValue(field, value)>> \o Tail(fields)]
            ELSE IF Truthy(field.Kids)
            THEN LET kids == find_and_fill_field(field.Kids, target_field_name,
                                                 value, full_path)
                 IN  IF kids.found
                     THEN [found |-> TRUE,
                           fields |-> <<[field EXCEPT !.Kids = kids.fields]>>
                                      \o Tail(fields)]
                     ELSE continue
            ELSE continue

-----------------------------------------------------------------------------
(* fill_form *)

\* the iteration without the test of line 266: empty values are written too
FillItemNoSkip(reader, field_name, field_value) ==
    IF ~reader.HasFields
    THEN [outcome |-> "Failed", fields |-> reader.Fields]
    ELSE LET r == find_and_fill_field(reader.Fields, field_name, field_value, <<>>)
         IN  IF r.found
             THEN [outcome |-> "Applied", fields |-> r.fields]
             ELSE [outcome |-> "NotFound", fields |-> r.fields]

\* the iteration without the test of line 270: every call counts as filled
FillItemAlwaysFilled(reader, field_name, field_value) ==
    IF ~Truthy(field_value)
    THEN [outcome |-> "Skipped", fields |-> reader.Fields]
    ELSE IF ~reader.HasFields
    THEN [outcome |-> "Failed", fields |-> reader.Fields]
    ELSE [outcome |-> "Applied",
          fields |-> find_and_fill_field(reader.Fields, field_name,
                                         field_value, <<>>).fields]

\* one iteration of the loop of lines 265-278 on the item <<field_name, field_value>>:
\* the outcome and the fields after it.  Fields = None makes the call of line 269
\* raise (a None is not iterable), which line 276 catches.
FillItem(reader, field_name, field_value) ==
    IF ~Truthy(field_value)
    THEN [outcome |-> "Skipped", fields |-> reader.Fields]
    ELSE IF ~reader.HasFields
    THEN [outcome |-> "Failed", fields |-> reader.Fields]
    ELSE LET r == find_and_fill_field(reader.Fields, field_name, field_value, <<>>)
         IN  IF r.found
             THEN [outcome |-> "Applied", fields |-> r.fields]
             ELSE [outcome |-> "NotFound", fields |-> r.fields]

\* lines 252-262: a reader that was never loaded raises on .Root, caught at 286
FillFormBegin ==
    /\ pc = "fill_form"
    /\ calls' = Append(calls, "fill_form")
    /\ pdf_before' = pdf_reader
    /\ filled_count' = 0
    /\ failed_count' = 0
    /\ report' = <<>>
    /\ i' = 1
    /\ IF pdf_reader.loaded /\ pdf_reader.AcroForm
       THEN pc' = "fill_loop" /\ UNCHANGED fill_ok
       ELSE pc' = "fill_returned" /\ fill_ok' = FALSE
    /\ UNCHANGED <<arg, result, json_input, blank, today, data, pdf_reader, field_mapping,
                   output, field_values, visited>>

\* the loop leaving at the first item that is not filled
FillFormEntryAbort ==
    /\ pc = "fill_loop"
    /\ i <= Len(field_mapping)
    /\ LET field_name == field_mapping[i].name
           field_value == field_mapping[i].value
           r == FillItem(pdf_reader, field_name, field_value)
       IN  /\ pdf_reader' = [pdf_reader EXCEPT !.Fields = r.fields]
           /\ filled_count' = IF r.outcome = "Applied"
                              THEN filled_count + 1 ELSE filled_count
           /\ failed_count' = IF r.outcome \in {"NotFound", "Failed"}
                              THEN failed_count + 1 ELSE failed_count
           /\ report' = IF r.outcome = "Skipped" THEN report
                        ELSE Append(report, [name |-> field_name,
                                             outcome |-> r.outcome])
           /\ i' = IF r.outcome \in {"NotFound", "Failed"}
                   THEN Len(field_mapping) + 1 ELSE i + 1
    /\ UNCHANGED <<arg, result, pc, json_input, blank, today, data, field_mapping, fill_ok,
                   pdf_before, calls, output, field_values, visited>>

\* lines 265-278, one item
FillFormEntry ==
    /\ pc = "fill_loop"
    /\ i <= Len(field_mapping)
    /\ LET field_name == field_mapping[i].name
           field_value == field_mapping[i].value
           r == FillItem(pdf_reader, field_name, field_value)
       IN  /\ pdf_reader' = [pdf_reader EXCEPT !.Fields = r.fields]
           /\ filled_count' = IF r.outcome = "Applied"
                              THEN filled_count + 1 ELSE filled_count
           /\ failed_count' = IF r.outcome \in {"NotFound", "Failed"}
                              THEN failed_count + 1 ELSE failed_count
           /\ report' = IF r.outcome = "Skipped" THEN report
                        ELSE Append(report, [name |-> field_name,
                                             outcome |-> r.outcome])
    /\ i' = i + 1
    /\ UNCHANGED <<arg, result, pc, json_input, blank, today, data, field_mapping, fill_ok,
                   pdf_before, calls, output, field_values, visited>>

\* lines 280-284
FillFormEnd ==
    /\ pc = "fill_loop"
    /\ i > Len(field_mapping)
    /\ fill_ok' = TRUE
    /\ pc' = "fill_returned"
    /\ UNCHANGED <<arg, result, json_input, blank, today, data, pdf_reader, field_mapping, i,
                   filled_count, failed_count, report, pdf_before, calls,
                   output, field_values, visited>>

-----------------------------------------------------------------------------
(* The value transformers *)

Digits == {"0", "1", "2", "3", "4", "5", "6", "7", "8", "9"}

DigitVal(c) == HexVal(c)

\* s[a:b] for 0 <= a <= b
Slice(s, a, b) == SubSeq(s, a + 1, IF b < Len(s) THEN b ELSE Len(s))

\* ''.join(filter(str.isdigit, s))
OnlyDigits(s) == SelectSeq(s, LAMBDA c : c \in Digits)

\* s.ljust(n, '0')
RECURSIVE LJustZero(_, _)
LJustZero(s, n) == IF Len(s) >= n THEN s ELSE LJustZero(s \o <<"0">>, n)

\* s.zfill(2): zeros go after a leading sign
ZFill2(s) ==
    IF Len(s) >= 2 THEN s
    ELSE IF s = <<>> THEN <<"0", "0">>
    ELSE IF s[1] \in {"+", "-"} THEN s \o <<"0">>
    ELSE <<"0">> \o s

\* s.split(sep): the parts between the separators
RECURSIVE Split(_, _)
Split(s, sep) ==
    IF \A k \in 1..Len(s) : s[k] # sep THEN << s >>
    ELSE LET k == CHOOSE j \in 1..Len(s) :
                      s[j] = sep /\ \A h \in 1..(j - 1) : s[h] # sep
         IN  << SubSeq(s, 1, k - 1) >> \o Split(SubSeq(s, k + 1, Len(s)), sep)

Contains(s, c) == \E k \in 1..Len(s) : s[k] = c

\* int(year) of a str of two characters: two digits, or a digit with a sign
\* before it or a blank beside it; anything else raises ValueError
Int2Ok(year) ==
    \/ year[1] \in Digits /\ year[2] \in Digits
    \/ year[1] \in {"+", "-", " "} /\ year[2] \in Digits
    \/ year[1] \in Digits /\ year[2] = " "

Int2(year) ==
    IF year[1] \in Digits /\ year[2] \in Digits
    THEN 10 * DigitVal(year[1]) + DigitVal(year[2])
    ELSE IF year[1] = "-" THEN 0 - DigitVal(year[2])
    ELSE IF year[1] \in Digits THEN DigitVal(year[1])
    ELSE DigitVal(year[2])

Sentinel == << <<"0", "1">>, <<"0", "1">>, <<"1", "9", "7", "0">> >>

\* a split that returns the first characters first
EmailOverflowInOrder(email) ==
    IF ~Truthy(email) THEN << <<>>, <<>> >>
    ELSE IF Len(email) <= 20 THEN << email, <<>> >>
    ELSE << Slice(email, 0, 20), Slice(email, 20, Len(email)) >>

\* lines 50-66: <<email_part_0, email_part_1>>
handle_email_overflow(email) ==
    IF ~Truthy(email) THEN << <<>>, <<>> >>
    ELSE IF Len(email) <= 20 THEN << <<>>, email >>
    ELSE << Slice(email, 20, Len(email)), Slice(email, 0, 20) >>

\* lines 68-77
split_ssn(ssn) ==
    LET clean_ssn == SelectSeq(ssn, LAMBDA c : c # "-" /\ c # " ")
    IN  << Slice(clean_ssn, 0, 3), Slice(clean_ssn, 3, 5), Slice(clean_ssn, 5, 9) >>

\* lines 79-89
split_phone(phone) ==
    LET digits == OnlyDigits(phone)
        clean_phone == IF Len(digits) # 10
                       THEN Slice(LJustZero(digits, 10), 0, 10)
                       ELSE digits
    IN  << Slice(clean_phone, 0, 3), Slice(clean_phone, 3, 6),
           Slice(clean_phone, 6, 10) >>

\* lines 91-118
split_date(date_str) ==
    IF ~Contains(date_str, "/") /\ ~Contains(date_str, "-") THEN Sentinel
    ELSE
    LET parts == IF Contains(date_str, "/") THEN Split(date_str, "/")
                 ELSE Split(date_str, "-")
    IN  IF Len(parts) # 3 THEN Sentinel
        ELSE
        LET month == ZFill2(parts[1])
            day == ZFill2(parts[2])
            year == parts[3]
        IN  IF Len(year) # 2 THEN << month, day, year >>
            ELSE IF ~Int2Ok(year) THEN Sentinel
            ELSE IF Int2(year) > 50 THEN << month, day, <<"1", "9">> \o year >>
            ELSE << month, day, <<"2", "0">> \o year >>

\* lines 120-130
split_zip(zip_code) ==
    LET clean_zip == OnlyDigits(zip_code)
    IN  IF Len(clean_zip) >= 5
        THEN << Slice(clean_zip, 0, 5),
                IF Len(clean_zip) > 5 THEN Slice(clean_zip, 5, 9) ELSE <<>> >>
        ELSE << LJustZero(clean_zip, 5), <<>> >>

-----------------------------------------------------------------------------
(* create_field_mapping *)

\* d.get(key, default) of a dict (a function from its keys)
Get(d, key, default) == IF key \in DOMAIN d THEN d[key] ELSE default

EmptyDict == [k \in {} |-> <<>>]

\* the fixed paths of the form
Page1(name) == <<"F[0]", ".", "Page_1[0]", ".", name>>

Subform1(name) == <<"F[0]", ".", "#subform[1]", ".", name>>

CompensationPath == Subform1("COMPENSATION[0]")
PensionPath == Subform1("PENSION[0]")
SurvivorsPath ==
    Subform1("SURVIVORS_PENSION_AND_OR_DEPENDENCY_AND_INDEMNITY_COMPENSATION_DIC[0]")

Selected == <<"/", "1">>

\* f"{n:02d}" of a month or a day
TwoDigits(n) == IF n < 10 THEN <<"0">> \o StrOfNat(n) ELSE StrOfNat(n)

\* a signature date that is left empty when none is given
SignatureDateOrEmpty(signature_info, now) ==
    LET sig_date == Get(signature_info, "date_signed", <<>>)
    IN  IF Truthy(sig_date) THEN split_date(sig_date) ELSE << <<>>, <<>>, <<>> >>

\* lines 164-171: <<sig_month, sig_day, sig_year>>; now is datetime.now()
SignatureDate(signature_info, now) ==
    LET sig_date == Get(signature_info, "date_signed", <<>>)
    IN  IF Truthy(sig_date) THEN split_date(sig_date)
        ELSE << TwoDigits(now[1]), TwoDigits(now[2]), StrOfNat(now[3]) >>

\* checkboxes that are written as /Off when their flag is not set
ElectionItemsWithOff(benefit_election) ==
    << Item(CompensationPath,
            IF Get(benefit_election, "compensation", FALSE)
            THEN Selected ELSE <<"/", "Off">>),
       Item(PensionPath,
            IF Get(benefit_election, "pension", FALSE)
            THEN Selected ELSE <<"/", "Off">>),
       Item(SurvivorsPath,
            IF Get(benefit_election, "survivors_pension_dic", FALSE)
            THEN Selected ELSE <<"/", "Off">>) >>

\* lines 236-243: the items added for the election flags, in order
ElectionItems(benefit_election) ==
    (IF Get(benefit_election, "compensation", FALSE)
     THEN << Item(CompensationPath, Selected) >> ELSE <<>>)
    \o (IF Get(benefit_election, "pension", FALSE)
        THEN << Item(PensionPath, Selected) >> ELSE <<>>)
    \o (IF Get(benefit_election, "survivors_pension_dic", FALSE)
        THEN << Item(SurvivorsPath, Selected) >> ELSE <<>>)

\* lines 132-248, for a data with a veteran_info (without one line 135 raises)
create_field_mapping(record, now) ==
    LET veteran_info == record["veteran_info"]
        benefit_election == Get(record, "benefit_election", EmptyDict)
        signature_info == Get(record, "signature_info", EmptyDict)
        email == handle_email_overflow(Get(veteran_info, "email", <<>>))
        ssn == Get(veteran_info, "ssn", <<>>)
        ssn_parts == IF Truthy(ssn) THEN split_ssn(ssn) ELSE << <<>>, <<>>, <<>> >>
        phone == Get(veteran_info, "phone", <<>>)
        phone_parts == IF Truthy(phone) THEN split_phone(phone)
                       ELSE << <<>>, <<>>, <<>> >>
        dob == Get(veteran_info, "date_of_birth", <<>>)
        dob_parts == IF Truthy(dob) THEN split_date(dob) ELSE << <<>>, <<>>, <<>> >>
        sig_parts == SignatureDate(signature_info, now)
        address == Get(veteran_info, "address", EmptyDict)
        zip_code == Get(address, "zip_code", <<>>)
        zip_parts == IF Truthy(zip_code) THEN split_zip(zip_code)
                     ELSE << <<>>, <<>> >>
    IN  << Item(Page1("Veterans_First_Name[0]"), Get(veteran_info, "first_name", <<>>)),
           Item(Page1("Veterans_Middle_Initial1[0]"),
                Get(veteran_info, "middle_initial", <<>>)),
           Item(Page1("Veterans_Last_Name[0]"), Get(veteran_info, "last_name", <<>>)),
           Item(Page1("Veterans_Social_SecurityNumber_FirstThreeNumbers[0]"),
                ssn_parts[1]),
           Item(Page1("Veterans_Social_SecurityNumber_SecondTwoNumbers[0]"),
                ssn_parts[2]),
           Item(Page1("VeteransSocialSecurityNumber_LastFourNumbers[0]"),
                ssn_parts[3]),
           Item(Page1("DOB_Month[0]"), dob_parts[1]),
           Item(Page1("DOB_Day[0]"), dob_parts[2]),
           Item(Page1("DOB_Year[0]"), dob_parts[3]),
           Item(Page1("EMAIL_ADDRESS[0]"), email[1]),
           Item(Page1("EMAIL_ADDRESS[1]"), email[2]),
           Item(Page1("Telephone_Number_FirstThreeNumbers[0]"), phone_parts[1]),
           Item(Page1("Telephone_Number_SecondThreeNumbers[0]"), phone_parts[2]),
           Item(Page1("Telephone_Number_LastFourNumbers[0]"), phone_parts[3]),
           Item(Page1("Mailing_Address_NumberAndStreet[0]"),
                Get(address, "street", <<>>)),
           Item(Page1("Mailing_Address_ApartmentOrUnitNumber[0]"),
                Get(address, "apt_unit", <<>>)),
           Item(Page1("MailingAddress_City[0]"), Get(address, "city", <<>>)),
           Item(Page1("MailingAddress_StateOrProvince[0]"),
                Get(address, "state", <<>>)),
           Item(Page1("MailingAddress_Country[0]"), Get(address, "country", <<>>)),
           Item(Page1("MailingAddress_ZIPOrPostalCode_FirstFiveNumbers[0]"),
                zip_parts[1]),
           Item(Page1("MailingAddress_ZIPOrPostalCode_LastFourNumbers[0]"),
                zip_parts[2]),
           Item(Page1("VA_File_Number[0]"), Get(veteran_info, "va_file_number", <<>>)),
           Item(Page1("Veterans_Service_Number[0]"),
                Get(veteran_info, "service_number", <<>>)),
           Item(Subform1("Date_Signed_Month[0]"), sig_parts[1]),
           Item(Subform1("Date_Signed_Day[0]"), sig_parts[2]),
           Item(Subform1("Date_Signed_Year[0]"), sig_parts[3]),
           Item(Subform1("Name_Of_Attorney_Agent_Or_Veterans_Service_Organization_VS[0]"),
                Get(signature_info, "attorney_agent_vso_name", <<>>)) >>
        \o ElectionItems(benefit_election)

\* The call of create_field_mapping (line 433).  On a data without a
\* veteran_info line 135 raises KeyError: no mapping is made.
CreateFieldMapping ==
    /\ pc = "create_mapping"
    /\ calls' = Append(calls, "create_field_mapping")
    /\ IF "veteran_info" \in DOMAIN data
       THEN /\ field_mapping' = create_field_mapping(data, today)
            /\ pc' = "fill_form"
       ELSE /\ pc' = "raised"
            /\ UNCHANGED field_mapping
    /\ UNCHANGED <<arg, result, json_input, blank, today, data, pdf_reader, i, filled_count,
                   failed_count, fill_ok, report, pdf_before, output,
                   field_values, visited>>

-----------------------------------------------------------------------------
(* main: load, validate, map, fill, save *)

\* load_json_input (lines 383-392) and main's test of it (lines 416-419): a
\* file that does not parse gives None, and None and {} both end main
LoadJsonInput ==
    /\ pc = "load_json"
    /\ calls' = Append(calls, "load_json_input")
    /\ data' = json_input
    /\ pc' = IF DOMAIN json_input = {} THEN "exit" ELSE "load_blank"
    /\ UNCHANGED <<arg, result, json_input, blank, today, pdf_reader, field_mapping, i,
                   filled_count, failed_count, fill_ok, report, pdf_before,
                   output, field_values, visited>>

\* load_blank_form (lines 19-27) and main's test of it (lines 425-426)
LoadBlankForm ==
    /\ pc = "load_blank"
    /\ calls' = Append(calls, "load_blank_form")
    /\ IF blank.loaded
       THEN pdf_reader' = blank /\ pc' = "validate"
       ELSE pdf_reader' = NoReader /\ pc' = "exit"
    /\ UNCHANGED <<arg, result, json_input, blank, today, data, field_mapping, i,
                   filled_count, failed_count, fill_ok, report, pdf_before,
                   output, field_values, visited>>

\* a validation that does not ask for the date of birth
ValidateWithoutDateOfBirth(record) ==
    /\ "veteran_info" \in DOMAIN record
    /\ \A field \in {"first_name", "last_name"} :
           field \in DOMAIN record["veteran_info"]

\* lines 29-48
validate_json_input(record) ==
    /\ "veteran_info" \in DOMAIN record
    /\ \A field \in {"first_name", "last_name", "date_of_birth"} :
           field \in DOMAIN record["veteran_info"]

\* the call of validate_json_input and main's test of it (lines 429-430)
ValidateJsonInput ==
    /\ pc = "validate"
    /\ calls' = Append(calls, "validate_json_input")
    /\ pc' = IF validate_json_input(data) THEN "create_mapping" ELSE "exit"
    /\ UNCHANGED <<arg, result, json_input, blank, today, data, pdf_reader, field_mapping, i,
                   filled_count, failed_count, fill_ok, report, pdf_before,
                   output, field_values, visited>>

\* a main that saves only when no entry has failed
MainAfterFillStrict ==
    /\ pc = "fill_returned"
    /\ pc' = IF fill_ok /\ failed_count = 0 THEN "save" ELSE "exit"
    /\ UNCHANGED <<arg, result, json_input, blank, today, data, pdf_reader,
                   field_mapping, i, filled_count, failed_count, fill_ok, report,
                   pdf_before, calls, output, field_values, visited>>

\* main's test of fill_form's result (lines 436-437)
MainAfterFill ==
    /\ pc = "fill_returned"
    /\ pc' = IF fill_ok THEN "save" ELSE "exit"
    /\ UNCHANGED <<arg, result, json_input, blank, today, data, pdf_reader, field_mapping, i,
                   filled_count, failed_count, fill_ok, report, pdf_before,
                   calls, output, field_values, visited>>

\* save_filled_form (lines 351-369) and the end of main (lines 439-452): the
\* write of the file succeeds or raises
SaveFilledForm ==
    /\ pc = "save"
    /\ calls' = Append(calls, "save_filled_form")
    /\ \E written \in BOOLEAN :
           output' = IF written THEN << pdf_reader >> ELSE <<>>
    /\ pc' = "exit"
    /\ UNCHANGED <<arg, result, json_input, blank, today, data, pdf_reader, field_mapping, i,
                   filled_count, failed_count, fill_ok, report, pdf_before,
                   field_values, visited>>

-----------------------------------------------------------------------------
(* field_value_inspector.py: the path index *)

\* a path that forgets the parent's
InspectorFullPathLocal(parent_path, field_name) == field_name

\* lines 76-79
InspectorFullPath(parent_path, field_name) ==
    IF Truthy(parent_path) THEN parent_path \o Dot \o field_name ELSE field_name

\* lines 12-32: the inspector's decode_unicode_field_name, the same text as
\* the filler's
InspectorDecode(field_name_obj) == decode_unicode_field_name(field_name_obj)

\* a reading that drops the two ends of every value
CurrentValueWithoutEnds(field) ==
    IF Truthy(field.V) THEN Slice1m1(field.V) ELSE <<>>

\* lines 82-87: str(field.V) without one pair of enclosing parentheses
CurrentValue(field) ==
    IF Truthy(field.V)
    THEN IF StartsWith(field.V, <<"(">>) /\ EndsWith(field.V, <<")">>)
         THEN Slice1m1(field.V)
         ELSE field.V
    ELSE <<>>

\* a dict that keeps the first value stored for a key
StoreIfAbsent(dict, key, value) ==
    IF key \in DOMAIN dict THEN dict ELSE (key :> value) @@ dict

\* line 101: field_values[full_path] = field_info
Store(dict, key, value) == (key :> value) @@ dict

\* The loop over fields from its k-th field on.  st.field_values is the dict
\* (a function from full_path to field_info); pos \o <<k>> is the place of the
\* field in the tree (the index of each ancestor in its list, then its own),
\* kept in field_info.node and in st.visited to tell which field an entry
\* was computed from: the code keeps no such reference.
RECURSIVE extract_values_recursive(_, _, _, _, _)
extract_values_recursive(fields, st, parent_path, pos, k) ==
    IF k > Len(fields) THEN st
    ELSE
    LET field == fields[k]
        field_name ==
            IF Truthy(field.T)
            THEN InspectorDecode(field.T)
            ELSE <<"unnamed_">> \o StrOfNat(Cardinality(DOMAIN st.field_values))
        full_path == InspectorFullPath(parent_path, field_name)
        field_value == CurrentValue(field)
        field_info ==
            [full_path |-> full_path,
             field_type |-> IF Truthy(field.FT) THEN field.FT ELSE <<"Unknown">>,
             current_value |-> field_value,
             has_value |-> Truthy(field_value),
             max_length |-> IF Truthy(field.MaxLen) THEN field.MaxLen
                            ELSE <<"No limit">>,
             node |-> pos \o <<k>>]
        stored ==
            [field_values |-> Store(st.field_values, full_path, field_info),
             visited |-> Append(st.visited,
                                [node |-> pos \o <<k>>, full_path |-> full_path])]
        after_kids ==
            IF Truthy(field.Kids)
            THEN extract_values_recursive(field.Kids, stored, full_path,
                                          pos \o <<k>>, 1)
            ELSE stored
    IN  extract_values_recursive(fields, after_kids, parent_path, pos, k + 1)

\* the index of a whole tree, as extract_field_values builds it (line 56)
PathIndex(fields) ==
    extract_values_recursive(fields, [field_values |-> <<>>, visited |-> <<>>],
                             <<>>, <<>>, 1)

\* extract_field_values, lines 38-62: None (here the empty dict) when the file
\* cannot be read or holds no /AcroForm or no /Fields
ExtractFieldValues ==
    /\ pc = "inspect"
    /\ pc' = "inspected"
    /\ IF blank.loaded /\ blank.AcroForm /\ blank.HasFields
       THEN /\ field_values' = PathIndex(blank.Fields).field_values
            /\ visited' = PathIndex(blank.Fields).visited
       ELSE field_values' = <<>> /\ visited' = <<>>
    /\ UNCHANGED <<arg, result, json_input, blank, today, data, pdf_reader, field_mapping, i,
                   filled_count, failed_count, fill_ok, report, pdf_before,
                   calls, output>>

-----------------------------------------------------------------------------
(* Inputs: field trees, documents, value maps *)

MaxNodes == 2
MaxEntries == 2

NameA == <<"(", "a", ")">>
NameAHex == <<"<", "F", "E", "F", "F", "0", "0", "6", "1", ">">>
NameB == <<"(", "b", ")">>
Off == <<"/", "Off">>

\* the fields a generated tree is made of (their Kids are set by FieldTrees)
FieldKinds ==
    { [NoField EXCEPT !.T = NameA, !.FT = Tx, !.MaxLen = <<"2", "0">>],
      [NoField EXCEPT !.T = NameAHex, !.FT = Btn, !.V = Off, !.AS = Off],
      NoField,
      [NoField EXCEPT !.T = NameB, !.FT = Ch, !.Ff = <<"2">>,
                      !.V = <<"(", "x", ")">>, !.Opt = << <<"(", "x", ")">> >>] }

\* every list of fields with exactly n fields in all, each of a kind of kinds
RECURSIVE FieldTrees(_, _)
FieldTrees(kinds, n) ==
    IF n = 0 THEN { <<>> }
    ELSE UNION { { <<[k EXCEPT !.Kids = kids]>> \o rest :
                     k \in kinds,
                     kids \in FieldTrees(kinds, a),
                     rest \in FieldTrees(kinds, n - 1 - a) } : a \in 0..(n - 1) }

FieldTreesUpTo(kinds, n) == UNION { FieldTrees(kinds, m) : m \in 0..n }

\* the documents fill_form may meet: never loaded, without /AcroForm, with an
\* /AcroForm without /Fields, and with a field tree
Documents ==
    { NoReader, Reader(TRUE, FALSE, FALSE, <<>>), Reader(TRUE, TRUE, FALSE, <<>>) }
    \cup { Reader(TRUE, TRUE, TRUE, t) : t \in FieldTreesUpTo(FieldKinds, MaxNodes) }

\* the keys of a value map: paths of top-level fields and of a child
TargetPaths == { <<"a">>, <<"a", ".", "b">>, <<"b">> }

Values == { <<>>, <<"/", "1">>, <<"x", "/", "y">> }

\* a dict of at most MaxEntries items: its keys are distinct
ValueMaps ==
    UNION { { m \in [1..n -> { Item(p, v) : p \in TargetPaths, v \in Values }] :
                \A j, k \in 1..n : j # k => m[j].name # m[k].name } :
            n \in 0..MaxEntries }

-----------------------------------------------------------------------------
(* fill_form called on any value map and any document *)

InitFill ==
    /\ pc = "fill_form"
    /\ json_input = <<>>
    /\ blank = NoReader
    /\ today = <<1, 1, 1970>>
    /\ data = <<>>
    /\ pdf_reader \in Documents
    /\ field_mapping \in ValueMaps
    /\ i = 1
    /\ filled_count = 0
    /\ failed_count = 0
    /\ fill_ok = FALSE
    /\ report = <<>>
    /\ pdf_before = NoReader
    /\ calls = <<>>
    /\ output = <<>>
    /\ field_values = <<>>
    /\ visited = <<>>
    /\ arg = <<>>
    /\ result = <<>>

NextFill == FillFormBegin \/ FillFormEntry \/ FillFormEnd

SpecFill == InitFill /\ [][NextFill]_vars

-----------------------------------------------------------------------------
(* What the claims speak of *)

\* the fields of a tree that have a name and whose ancestors all have one, in
\* depth-first pre-order, each with the dotted path of its decoded names
RECURSIVE NamedNodes(_, _)
NamedNodes(fields, parent_path) ==
    IF fields = <<>> THEN <<>>
    ELSE LET f == Head(fields)
             name == decode_unicode_field_name(f.T)
             path == IF parent_path = <<>> THEN name ELSE parent_path \o <<".">> \o name
         IN  (IF f.T = <<>> THEN <<>>
              ELSE <<[path |-> path, field |-> f]>> \o NamedNodes(f.Kids, path))
             \o NamedNodes(Tail(fields), parent_path)

NamedPaths(fields) ==
    { NamedNodes(fields, <<>>)[k].path : k \in 1..Len(NamedNodes(fields, <<>>)) }

\* the first field in pre-order with this path (there is one)
FirstNode(fields, path) ==
    LET nodes == NamedNodes(fields, <<>>)
        k == CHOOSE j \in 1..Len(nodes) :
                 /\ nodes[j].path = path
                 /\ \A h \in 1..(j - 1) : nodes[h].path # path
    IN  nodes[k].field

\* the items fill_form has gone through so far, and those of them it attempts
Processed == SubSeq(field_mapping, 1, i - 1)

Attempted == SelectSeq(Processed, LAMBDA it : it.value # <<>>)

InFillForm == pc \in {"fill_loop", "fill_returned"}

FillFormReturned == pc = "fill_returned" /\ fill_ok

\* C1: every item with a non-empty value is attempted exactly once, in the
\* map's iteration order, whatever the outcome of the items before it: the
\* report has one row per attempted item, in order, fill_form returns only
\* after the last item, and an item whose path is the path of a field is
\* applied even after items that were not found.
C1_EveryEntryAttemptedInOrder ==
    InFillForm =>
        /\ Len(report) = Len(Attempted)
        /\ \A k \in 1..Len(report) :
              /\ report[k].name = Attempted[k].name
              /\ (pdf_before.HasFields
                  /\ Attempted[k].name \in NamedPaths(pdf_before.Fields))
                 => report[k].outcome = "Applied"
        /\ FillFormReturned => i = Len(field_mapping) + 1

\* an item was applied after an earlier one was not found
C1_Witness ==
    /\ FillFormReturned
    /\ \E j, k \in 1..Len(report) :
          j < k /\ report[j].outcome = "NotFound" /\ report[k].outcome = "Applied"

-----------------------------------------------------------------------------
(* The inspector run on any document *)

MaxIndexNodes == 3

NameAB == <<"(", "a", ".", "b", ")">>
NameEmpty == <<"(", ")">>

\* the kinds of fields of an inspected tree: those above, a name with a '.',
\* and a name that decodes to the empty string
IndexFieldKinds ==
    FieldKinds \cup { [NoField EXCEPT !.T = NameAB, !.V = <<"v">>],
                      [NoField EXCEPT !.T = NameEmpty, !.FT = Tx] }

InitIndex ==
    /\ pc = "inspect"
    /\ json_input = <<>>
    /\ blank \in { Reader(FALSE, FALSE, FALSE, <<>>), Reader(TRUE, FALSE, FALSE, <<>>),
                   Reader(TRUE, TRUE, FALSE, <<>>) }
                 \cup { Reader(TRUE, TRUE, TRUE, t) :
                          t \in FieldTreesUpTo(IndexFieldKinds, MaxIndexNodes) }
    /\ today = <<1, 1, 1970>>
    /\ data = <<>>
    /\ pdf_reader = NoReader
    /\ field_mapping = <<>>
    /\ i = 1
    /\ filled_count = 0
    /\ failed_count = 0
    /\ fill_ok = FALSE
    /\ report = <<>>
    /\ pdf_before = NoReader
    /\ calls = <<>>
    /\ output = <<>>
    /\ field_values = <<>>
    /\ visited = <<>>
    /\ arg = <<>>
    /\ result = <<>>

NextIndex == ExtractFieldValues

SpecIndex == InitIndex /\ [][NextIndex]_vars

-----------------------------------------------------------------------------
(* The path index *)

RECURSIVE CountNodes(_)
CountNodes(fields) ==
    IF fields = <<>> THEN 0
    ELSE 1 + CountNodes(Head(fields).Kids) + CountNodes(Tail(fields))

Inspected == pc = "inspected" /\ blank.loaded /\ blank.AcroForm /\ blank.HasFields

\* the list a visited field is in: the place of its parent
ParentOf(node) == SubSeq(node, 1, Len(node) - 1)

\* no two fields of one list got the same name (decoded or synthesized): in
\* one list the paths differ exactly when the names do
NoSiblingsWithTheSameName ==
    \A j, k \in 1..Len(visited) :
        (j # k /\ ParentOf(visited[j].node) = ParentOf(visited[k].node))
        => visited[j].full_path # visited[k].full_path

\* every entry of the index is the one computed from its field
EveryPathResolves ==
    \A k \in 1..Len(visited) :
        /\ visited[k].full_path \in DOMAIN field_values
        /\ field_values[visited[k].full_path].node = visited[k].node

\* every name in the tree decodes to a non-empty string without a '.'
RECURSIVE PlainNames(_)
PlainNames(fields) ==
    \A k \in 1..Len(fields) :
        /\ fields[k].T # <<>> =>
              LET name == decode_unicode_field_name(fields[k].T)
              IN  name # <<>> /\ \A c \in 1..Len(name) : name[c] # "."
        /\ PlainNames(fields[k].Kids)

\* C10 as stated: with no two siblings of the same name, the index of a tree
\* of N fields has N entries and each path resolves to its field.
C10_Original ==
    (Inspected /\ NoSiblingsWithTheSameName) =>
        /\ Len(visited) = CountNodes(blank.Fields)
        /\ Cardinality(DOMAIN field_values) = CountNodes(blank.Fields)
        /\ EveryPathResolves

\* C10, amended: the same, for a tree whose decoded names are non-empty and
\* hold no '.': then the index of a tree of N fields has exactly N entries,
\* one per field, and each entry's path resolves back to its field.
C10_IndexHasOneEntryPerNode ==
    (Inspected /\ NoSiblingsWithTheSameName /\ PlainNames(blank.Fields)) =>
        /\ Len(visited) = CountNodes(blank.Fields)
        /\ Cardinality(DOMAIN field_values) = CountNodes(blank.Fields)
        /\ EveryPathResolves

\* a tree of three fields on two levels, one of them without a name
C10_Witness ==
    /\ Inspected /\ NoSiblingsWithTheSameName /\ PlainNames(blank.Fields)
    /\ CountNodes(blank.Fields) = 3
    /\ Cardinality(DOMAIN field_values) = 3
    /\ \E k \in 1..Len(visited) : Len(visited[k].node) = 2
    /\ \E k \in 1..Len(blank.Fields) : blank.Fields[k].T = <<>>

-----------------------------------------------------------------------------
(* fill_form: what was written *)

\* the field at a place of the tree
RECURSIVE NodeAt(_, _)
NodeAt(fields, node) ==
    IF Len(node) = 1 THEN fields[node[1]]
    ELSE NodeAt(fields[node[1]].Kids, Tail(node))

\* every field of a tree with the path the index computes for it
Visits(fields) == PathIndex(fields).visited

\* a name token: '/' followed by characters other than '/'
IsNameToken(value) ==
    /\ Len(value) >= 1
    /\ value[1] = "/"
    /\ \A k \in 2..Len(value) : value[k] # "/"

AppliedRows == { k \in 1..Len(report) : report[k].outcome = "Applied" }

WrittenKeys ==
    { field_mapping[k].name :
        k \in { j \in 1..Len(field_mapping) : field_mapping[j].value # <<>> } }

\* after is before but for the V and AS of fields whose path is in keys;
\* named: every ancestor has a name
RECURSIVE OnlyValuesChanged(_, _, _, _, _)
OnlyValuesChanged(before, after, parent_path, named, keys) ==
    /\ Len(after) = Len(before)
    /\ \A k \in 1..Len(before) :
          LET b == before[k]
              a == after[k]
              name == decode_unicode_field_name(b.T)
              path == IF parent_path = <<>> THEN name
                      ELSE parent_path \o <<".">> \o name
              has_path == named /\ b.T # <<>>
          IN  /\ [a EXCEPT !.V = b.V, !.AS = b.AS, !.Kids = b.Kids] = b
              /\ (has_path /\ path \in keys) \/ (a.V = b.V /\ a.AS = b.AS)
              /\ OnlyValuesChanged(b.Kids, a.Kids, path, has_path, keys)

\* C3: during and after a fill_form pass the tree has the fields, names,
\* types, flags and parent/child structure it had before, and a field whose
\* full path is not the key of a non-empty entry has its V and AS unchanged.
C3_OnlyTargetedValuesChange ==
    InFillForm =>
        /\ [pdf_reader EXCEPT !.Fields = pdf_before.Fields] = pdf_before
        /\ OnlyValuesChanged(pdf_before.Fields, pdf_reader.Fields, <<>>, TRUE,
                             WrittenKeys)

\* a pass wrote one field of a tree of two
C3_Witness ==
    /\ FillFormReturned
    /\ filled_count >= 1
    /\ pdf_reader # pdf_before
    /\ CountNodes(pdf_reader.Fields) = 2

\* C4: an entry whose value is the empty string is skipped: every field at
\* its path keeps its V and AS, and the entry is counted neither as filled
\* nor as failed (it has no row in the report, and the two counts add up to
\* the number of non-empty entries gone through).
C4_EmptyValueSkipped ==
    InFillForm =>
        /\ filled_count + failed_count = Len(Attempted)
        /\ \A k \in 1..Len(field_mapping) :
              field_mapping[k].value = <<>> =>
                  /\ \A r \in 1..Len(report) :
                        report[r].name # field_mapping[k].name
                  /\ \A v \in 1..Len(Visits(pdf_before.Fields)) :
                        LET at == Visits(pdf_before.Fields)[v]
                        IN  at.full_path = field_mapping[k].name =>
                              /\ NodeAt(pdf_reader.Fields, at.node).V
                                    = NodeAt(pdf_before.Fields, at.node).V
                              /\ NodeAt(pdf_reader.Fields, at.node).AS
                                    = NodeAt(pdf_before.Fields, at.node).AS

\* a finished pass over a map with an empty value for the path of a field
\* that holds a value
C4_Witness ==
    /\ FillFormReturned
    /\ \E k \in 1..Len(field_mapping) :
          /\ field_mapping[k].value = <<>>
          /\ \E v \in 1..Len(Visits(pdf_before.Fields)) :
                LET at == Visits(pdf_before.Fields)[v]
                IN  /\ at.full_path = field_mapping[k].name
                    /\ NodeAt(pdf_before.Fields, at.node).V # <<>>

\* the token without its leading '/', if it has one
StripLeadingMarker(value) ==
    IF value # <<>> /\ value[1] = "/" THEN Tail(value) ELSE value

\* C5 as stated: a Button that was found has V and AS set to the token with
\* only its leading '/' stripped; a field of another type has V set to the
\* value verbatim and its AS unchanged.
C5_Original ==
    InFillForm =>
        \A k \in AppliedRows :
            LET b == FirstNode(pdf_before.Fields, Attempted[k].name)
                a == FirstNode(pdf_reader.Fields, Attempted[k].name)
            IN  IF b.FT = Btn
                THEN /\ a.V = PdfName(StripLeadingMarker(Attempted[k].value))
                     /\ a.AS = PdfName(StripLeadingMarker(Attempted[k].value))
                ELSE a.V = Attempted[k].value /\ a.AS = b.AS

-----------------------------------------------------------------------------
(* The inputs of main and of create_field_mapping *)

MaxMissing == 2

\* a complete record; vso is the name of the service organization
CompleteVeteranInfo ==
    [first_name |-> <<"J", "o">>, middle_initial |-> <<"Q">>, last_name |-> <<"D", "o", "e">>,
     date_of_birth |-> <<"3", "/", "4", "/", "9", "9">>,
     ssn |-> <<"1", "2", "3", "-", "4", "5", "-", "6", "7", "8", "9">>,
     phone |-> <<"(", "5", "5", "5", ")", "1", "2", "3", "-", "4", "5", "6", "7">>,
     email |-> <<"j", "o", ".", "d", "o", "e", ".", "v", "e", "t", "e", "r", "a", "n", "@", "v", "a", ".", "e", "x", "a", "m", "p", "l", "e">>,
     va_file_number |-> <<"1", "2">>, service_number |-> <<"7">>,
     address |-> [street |-> <<"1", " ", "A", " ", "S", "t">>, apt_unit |-> <<"2">>,
                  city |-> <<"X">>, state |-> <<"N", "Y">>, country |-> <<"U", "S">>,
                  zip_code |-> <<"1", "2", "3", "4", "5", "-", "6", "7", "8", "9">>]]

CompleteSignatureInfo(vso) ==
    [date_signed |-> <<"1", "2", "-", "3", "1", "-", "2", "0", "2", "4">>,
     attorney_agent_vso_name |-> vso]

VsoNames == { <<"V", "F", "W">>, <<"(", "V", "F", "W", ")">> }

\* the names a record may lack: sections and the entries of the sections
SectionNames == {"veteran_info", "benefit_election", "signature_info"}

VeteranInfoNames == DOMAIN CompleteVeteranInfo

AddressNames == DOMAIN CompleteVeteranInfo.address

SignatureInfoNames == {"date_signed", "attorney_agent_vso_name"}

ElectionNames == {"compensation", "pension", "survivors_pension_dic"}

RecordNames ==
    SectionNames \cup VeteranInfoNames \cup AddressNames
    \cup SignatureInfoNames \cup ElectionNames

\* the complete record without the names of missing; flags are the elections set
RecordWithout(missing, flags, vso) ==
    LET address == [k \in AddressNames \ missing |->
                        CompleteVeteranInfo.address[k]]
        veteran_info == [k \in VeteranInfoNames \ missing |->
                             IF k = "address" THEN address
                             ELSE CompleteVeteranInfo[k]]
        benefit_election == [k \in ElectionNames \ missing |-> k \in flags]
        signature_info == [k \in SignatureInfoNames \ missing |->
                               CompleteSignatureInfo(vso)[k]]
    IN  [k \in SectionNames \ missing |->
             CASE k = "veteran_info" -> veteran_info
               [] k = "benefit_election" -> benefit_election
               [] OTHER -> signature_info]

\* datetime.now() as <<month, day, year>>
Todays == { <<11, 4, 2026>>, <<1, 15, 2025>> }

\* the subsets of S of at most n elements
RECURSIVE SubsetsUpTo(_, _)
SubsetsUpTo(S, n) ==
    IF n = 0 THEN { {} }
    ELSE LET smaller == SubsetsUpTo(S, n - 1)
         IN  smaller \cup { m \cup {x} : m \in smaller, x \in S }

\* the records given to create_field_mapping: at most MaxMissing names missing
MappingRecords ==
    { RecordWithout(missing, flags, vso) :
        missing \in SubsetsUpTo(RecordNames, MaxMissing),
        flags \in SUBSET ElectionNames,
        vso \in VsoNames }

InitMapping ==
    /\ pc = "create_mapping"
    /\ json_input \in MappingRecords
    /\ data = json_input
    /\ today \in Todays
    /\ blank = NoReader
    /\ pdf_reader = NoReader
    /\ field_mapping = <<>>
    /\ i = 1
    /\ filled_count = 0
    /\ failed_count = 0
    /\ fill_ok = FALSE
    /\ report = <<>>
    /\ pdf_before = NoReader
    /\ calls = <<>>
    /\ output = <<>>
    /\ field_values = <<>>
    /\ visited = <<>>
    /\ arg = <<>>
    /\ result = <<>>

NextMapping == CreateFieldMapping

SpecMapping == InitMapping /\ [][NextMapping]_vars

-----------------------------------------------------------------------------
(* Claims on create_field_mapping *)

\* create_field_mapping has returned its map
Mapped == pc = "fill_form"

MapKeys == { field_mapping[k].name : k \in 1..Len(field_mapping) }

ValueAt(path) ==
    field_mapping[CHOOSE k \in 1..Len(field_mapping) :
                      field_mapping[k].name = path].value

ElectionPath(flag) ==
    CASE flag = "compensation" -> CompensationPath
      [] flag = "pension" -> PensionPath
      [] OTHER -> SurvivorsPath

FlagIsTrue(flag) ==
    /\ "benefit_election" \in DOMAIN data
    /\ flag \in DOMAIN data["benefit_election"]
    /\ data["benefit_election"][flag]

\* C6: the election keys of the map returned by create_field_mapping are
\* exactly the paths of the flags that are true in benefit_election, each
\* with the value "/1"; a flag that is false or absent gives no key, and no
\* item of the map holds the unselected token "/Off".
C6_ElectionKeysAreTheTrueFlags ==
    Mapped =>
        /\ \A flag \in ElectionNames :
               IF FlagIsTrue(flag)
               THEN /\ ElectionPath(flag) \in MapKeys
                    /\ ValueAt(ElectionPath(flag)) = <<"/", "1">>
               ELSE ElectionPath(flag) \notin MapKeys
        /\ \A k \in 1..Len(field_mapping) : field_mapping[k].value # Off

\* a record with one flag true, one false and one absent has been mapped
C6_Witness ==
    /\ Mapped
    /\ FlagIsTrue("compensation")
    /\ "pension" \in DOMAIN data["benefit_election"]
    /\ ~data["benefit_election"]["pension"]
    /\ "survivors_pension_dic" \notin DOMAIN data["benefit_election"]
    /\ CompensationPath \in MapKeys
    /\ PensionPath \notin MapKeys
    /\ SurvivorsPath \notin MapKeys

OptionalScalars ==
    (VeteranInfoNames \ {"first_name", "last_name", "date_of_birth", "address"})
    \cup AddressNames \cup SignatureInfoNames

\* the fixed path or paths of an optional scalar
PathsOf(name) ==
    CASE name = "middle_initial" -> { Page1("Veterans_Middle_Initial1[0]") }
      [] name = "ssn" ->
            { Page1("Veterans_Social_SecurityNumber_FirstThreeNumbers[0]"),
              Page1("Veterans_Social_SecurityNumber_SecondTwoNumbers[0]"),
              Page1("VeteransSocialSecurityNumber_LastFourNumbers[0]") }
      [] name = "phone" ->
            { Page1("Telephone_Number_FirstThreeNumbers[0]"),
              Page1("Telephone_Number_SecondThreeNumbers[0]"),
              Page1("Telephone_Number_LastFourNumbers[0]") }
      [] name = "email" -> { Page1("EMAIL_ADDRESS[0]"), Page1("EMAIL_ADDRESS[1]") }
      [] name = "street" -> { Page1("Mailing_Address_NumberAndStreet[0]") }
      [] name = "apt_unit" -> { Page1("Mailing_Address_ApartmentOrUnitNumber[0]") }
      [] name = "city" -> { Page1("MailingAddress_City[0]") }
      [] name = "state" -> { Page1("MailingAddress_StateOrProvince[0]") }
      [] name = "country" -> { Page1("MailingAddress_Country[0]") }
      [] name = "zip_code" ->
            { Page1("MailingAddress_ZIPOrPostalCode_FirstFiveNumbers[0]"),
              Page1("MailingAddress_ZIPOrPostalCode_LastFourNumbers[0]") }
      [] name = "va_file_number" -> { Page1("VA_File_Number[0]") }
      [] name = "service_number" -> { Page1("Veterans_Service_Number[0]") }
      [] name = "date_signed" ->
            { Subform1("Date_Signed_Month[0]"), Subform1("Date_Signed_Day[0]"),
              Subform1("Date_Signed_Year[0]") }
      [] OTHER ->
            { Subform1("Name_Of_Attorney_Agent_Or_Veterans_Service_Organization_VS[0]") }

\* the optional scalar is not in the record: its section, or the entry, is absent
IsMissing(name) ==
    IF name \in SignatureInfoNames
    THEN \/ "signature_info" \notin DOMAIN data
         \/ name \notin DOMAIN data["signature_info"]
    ELSE IF name \in AddressNames
    THEN \/ "address" \notin DOMAIN data["veteran_info"]
         \/ name \notin DOMAIN data["veteran_info"]["address"]
    ELSE name \notin DOMAIN data["veteran_info"]

\* the decimal numeral s, of width digits, denotes n
RECURSIVE Denotes(_, _)
Denotes(s, n) ==
    IF s = <<>> THEN n = 0
    ELSE /\ s[Len(s)] \in Digits
         /\ n % 10 = DigitVal(s[Len(s)])
         /\ Denotes(SubSeq(s, 1, Len(s) - 1), n \div 10)

\* C7 as stated: every optional scalar that is missing from the record,
\* date_signed included, has its key or keys in the map with the empty string.
C7_Original ==
    Mapped =>
        \A name \in OptionalScalars :
            IsMissing(name) =>
                \A path \in PathsOf(name) :
                    path \in MapKeys /\ ValueAt(path) = <<>>

\* C7: every optional scalar other than date_signed that is missing from the
\* record has its key or keys in the map with the empty string; a missing
\* date_signed has its three keys in the map with the current date: the
\* month and the day in two digits and the year.
C7_MissingOptionalsAreEmptyButTheDate ==
    Mapped =>
        /\ \A name \in OptionalScalars \ {"date_signed"} :
               IsMissing(name) =>
                   \A path \in PathsOf(name) :
                       path \in MapKeys /\ ValueAt(path) = <<>>
        /\ IsMissing("date_signed") =>
               /\ PathsOf("date_signed") \subseteq MapKeys
               /\ Len(ValueAt(Subform1("Date_Signed_Month[0]"))) = 2
               /\ Denotes(ValueAt(Subform1("Date_Signed_Month[0]")), today[1])
               /\ Len(ValueAt(Subform1("Date_Signed_Day[0]"))) = 2
               /\ Denotes(ValueAt(Subform1("Date_Signed_Day[0]")), today[2])
               /\ Denotes(ValueAt(Subform1("Date_Signed_Year[0]")), today[3])

\* a record without ssn and without date_signed has been mapped in January
C7_Witness ==
    /\ Mapped
    /\ IsMissing("ssn")
    /\ IsMissing("date_signed")
    /\ today[1] = 1
    /\ ValueAt(Page1("VeteransSocialSecurityNumber_LastFourNumbers[0]")) = <<>>
    /\ ValueAt(Subform1("Date_Signed_Month[0]")) = <<"0", "1">>

-----------------------------------------------------------------------------
(* The forms and the records given to main *)

Page1Names ==
    << "Veterans_First_Name[0]",
       "Veterans_Middle_Initial1[0]",
       "Veterans_Last_Name[0]",
       "Veterans_Social_SecurityNumber_FirstThreeNumbers[0]",
       "Veterans_Social_SecurityNumber_SecondTwoNumbers[0]",
       "VeteransSocialSecurityNumber_LastFourNumbers[0]",
       "DOB_Month[0]",
       "DOB_Day[0]",
       "DOB_Year[0]",
       "EMAIL_ADDRESS[0]",
       "EMAIL_ADDRESS[1]",
       "Telephone_Number_FirstThreeNumbers[0]",
       "Telephone_Number_SecondThreeNumbers[0]",
       "Telephone_Number_LastFourNumbers[0]",
       "Mailing_Address_NumberAndStreet[0]",
       "Mailing_Address_ApartmentOrUnitNumber[0]",
       "MailingAddress_City[0]",
       "MailingAddress_StateOrProvince[0]",
       "MailingAddress_Country[0]",
       "MailingAddress_ZIPOrPostalCode_FirstFiveNumbers[0]",
       "MailingAddress_ZIPOrPostalCode_LastFourNumbers[0]",
       "VA_File_Number[0]",
       "Veterans_Service_Number[0]" >>

Subform1TextNames ==
    << "Date_Signed_Month[0]",
       "Date_Signed_Day[0]",
       "Date_Signed_Year[0]",
       "Name_Of_Attorney_Agent_Or_Veterans_Service_Organization_VS[0]" >>

Subform1CheckBoxNames ==
    << "COMPENSATION[0]",
       "PENSION[0]",
       "SURVIVORS_PENSION_AND_OR_DEPENDENCY_AND_INDEMNITY_COMPENSATION_DIC[0]" >>

\* the raw /T of a field with the given name
Raw(name) == <<"(", name, ")">>

TextField(name, v) == [NoField EXCEPT !.T = Raw(name), !.FT = Tx, !.V = v]

CheckBox(name) == [NoField EXCEPT !.T = Raw(name), !.FT = Btn, !.V = Off, !.AS = Off]

Container(t, kids) == [NoField EXCEPT !.T = t, !.Kids = kids]

Page1Fields == [k \in 1..Len(Page1Names) |-> TextField(Page1Names[k], <<>>)]

Subform1Fields ==
    [k \in 1..Len(Subform1TextNames) |-> TextField(Subform1TextNames[k], <<>>)]
    \o [k \in 1..Len(Subform1CheckBoxNames) |-> CheckBox(Subform1CheckBoxNames[k])]

\* the form: F[0] holds Page_1[0] and #subform[1], which hold the fields
Form(page1, subform1) ==
    << Container(Raw("F[0]"),
                 << Container(Raw("Page_1[0]"), page1),
                    Container(Raw("#subform[1]"), subform1) >>) >>

\* the blank form, and forms that differ from it: a second field with the name
\* of the first one, holding a value; the last name and the organization as
\* buttons; no #subform[1]; Page_1[0] without a name
Forms ==
    { Form(Page1Fields, Subform1Fields),
      Form(Page1Fields \o << TextField(Page1Names[1], <<"(", "o", "l", "d", ")">>) >>,
           Subform1Fields),
      Form([Page1Fields EXCEPT ![3].FT = Btn],
           [Subform1Fields EXCEPT ![4].FT = Btn]),
      << Container(Raw("F[0]"), << Container(Raw("Page_1[0]"), Page1Fields) >>) >>,
      << Container(Raw("F[0]"),
                   << Container(None, Page1Fields),
                      Container(Raw("#subform[1]"), Subform1Fields) >>) >> }

\* the files main may be given as the blank form
BlankForms ==
    { NoReader, Reader(TRUE, FALSE, FALSE, <<>>), Reader(TRUE, TRUE, FALSE, <<>>) }
    \cup { Reader(TRUE, TRUE, TRUE, t) : t \in Forms }

\* the records main may be given: a file that does not parse or holds {}, and
\* the complete record or the record without one of the required names
JsonInputs ==
    { EmptyDict }
    \cup { RecordWithout(missing, flags, vso) :
             missing \in { {}, {"veteran_info"}, {"first_name"}, {"last_name"},
                           {"date_of_birth"} },
             flags \in { {"compensation"},
                         {"compensation", "pension", "survivors_pension_dic"} },
             vso \in VsoNames }

Init ==
    /\ pc = "load_json"
    /\ json_input \in JsonInputs
    /\ blank \in BlankForms
    /\ today \in Todays
    /\ data = EmptyDict
    /\ pdf_reader = NoReader
    /\ field_mapping = <<>>
    /\ i = 1
    /\ filled_count = 0
    /\ failed_count = 0
    /\ fill_ok = FALSE
    /\ report = <<>>
    /\ pdf_before = NoReader
    /\ calls = <<>>
    /\ output = <<>>
    /\ field_values = <<>>
    /\ visited = <<>>
    /\ arg = <<>>
    /\ result = <<>>

Next ==
    \/ LoadJsonInput
    \/ LoadBlankForm
    \/ ValidateJsonInput
    \/ CreateFieldMapping
    \/ FillFormBegin
    \/ FillFormEntry
    \/ FillFormEnd
    \/ MainAfterFill
    \/ SaveFilledForm

Spec == Init /\ [][Next]_vars

-----------------------------------------------------------------------------
(* Claims on main *)

Called(name) == \E k \in 1..Len(calls) : calls[k] = name

\* a required name is absent from the record
LacksRequired ==
    \/ "veteran_info" \notin DOMAIN data
    \/ "first_name" \notin DOMAIN data["veteran_info"]
    \/ "last_name" \notin DOMAIN data["veteran_info"]
    \/ "date_of_birth" \notin DOMAIN data["veteran_info"]

\* C8: when the record lacks veteran_info, or first_name, last_name or
\* date_of_birth inside it, validate_json_input returns False and main ends
\* there: create_field_mapping, fill_form and save_filled_form are not
\* called, the field tree is as it was loaded and no output is written.
C8_ValidationFailureEndsTheRun ==
    (Called("validate_json_input") /\ LacksRequired) =>
        /\ pc = "exit"
        /\ ~validate_json_input(data)
        /\ calls = <<"load_json_input", "load_blank_form", "validate_json_input">>
        /\ pdf_reader = blank
        /\ field_mapping = <<>>
        /\ output = <<>>

\* a record with a veteran_info without date_of_birth has been validated
C8_Witness ==
    /\ Called("validate_json_input")
    /\ "veteran_info" \in DOMAIN data
    /\ "date_of_birth" \notin DOMAIN data["veteran_info"]
    /\ "first_name" \in DOMAIN data["veteran_info"]
    /\ blank.HasFields
    /\ pc = "exit"

\* fill_form has returned True in main
Filled == pc \in {"fill_returned", "save", "exit"} /\ Called("fill_form") /\ fill_ok

\* the path index built over the filled tree
FilledIndex == PathIndex(pdf_reader.Fields)

EnclosedInParentheses(value) ==
    StartsWith(value, <<"(">>) /\ EndsWith(value, <<")">>)

\* C9 as stated: after create_field_mapping and fill_form on a complete valid
\* record, every path reported as written is in the path index built over
\* the same tree, and the index gives for it the value that was written.
C9_Original ==
    Filled =>
        LET index == FilledIndex
        IN  \A k \in AppliedRows :
                /\ report[k].name \in DOMAIN index.field_values
                /\ index.field_values[report[k].name].current_value
                       = ValueAt(report[k].name)

\* C9, amended: after create_field_mapping and fill_form on a complete valid
\* record, every path reported as written is in the path index built over
\* the same tree; the index gives for it the value that was written when the
\* path is the path of one field only, the value is not enclosed in
\* parentheses and, if the field is a Button, the value is a name token.
C9_RoundTripOfUniquePaths ==
    Filled =>
        LET index == FilledIndex
        IN  \A k \in AppliedRows :
                LET path == report[k].name
                    value == ValueAt(path)
                    fields_at == { v \in 1..Len(index.visited) :
                                       index.visited[v].full_path = path }
                IN  /\ path \in DOMAIN index.field_values
                    /\ ( /\ Cardinality(fields_at) = 1
                         /\ ~EnclosedInParentheses(value)
                         /\ (FirstNode(pdf_reader.Fields, path).FT = Btn
                                => IsNameToken(value)) )
                       => index.field_values[path].current_value = value

\* the blank form has been filled from a complete record: the first name and
\* the compensation box read back as written
C9_Witness ==
    /\ Filled
    /\ blank = Reader(TRUE, TRUE, TRUE, Form(Page1Fields, Subform1Fields))
    /\ filled_count = Len(report)
    /\ Len(report) > Len(Page1Names)
    /\ FilledIndex.field_values[Page1("Veterans_First_Name[0]")].current_value
           = <<"J", "o">>
    /\ FilledIndex.field_values[CompensationPath].current_value = <<"/", "1">>

-----------------------------------------------------------------------------
(* decode_unicode_field_name on its own *)

MaxHex == 5
MaxPlain == 4

\* the strings over an alphabet of at most n characters
RECURSIVE StringsUpTo(_, _)
StringsUpTo(alphabet, n) ==
    IF n = 0 THEN { <<>> }
    ELSE LET shorter == StringsUpTo(alphabet, n - 1)
         IN  shorter \cup { Append(w, c) : w \in shorter, c \in alphabet }

\* what may stand between <FEFF and >: hex digits, a letter that is none, and
\* the other characters int() reads
HexAlphabet == {"0", "6", "g", "-", " ", "_", "x"}

PlainAlphabet == {"(", ")", "a", "<"}

FEFF == <<"<", "F", "E", "F", "F">>

Hex(word) == FEFF \o word \o <<">">>

\* the raw tokens: <FEFF...> with a short content, the tokens that encode
\* (a), <FEFF> and ab, and short tokens of other forms
RawTokens ==
    { Hex(h) : h \in StringsUpTo(HexAlphabet, MaxHex) }
    \cup { Hex(<<"0", "0", "2", "8", "0", "0", "6", "1", "0", "0", "2", "9">>),
           Hex(<<"0", "0", "3", "C", "0", "0", "4", "6", "0", "0", "4", "5",
                 "0", "0", "4", "6", "0", "0", "4", "6", "0", "0", "3", "E">>),
           Hex(<<"0", "0", "6", "1", "0", "0", "6", "2">>) }
    \cup StringsUpTo(PlainAlphabet, MaxPlain)

InitDecode ==
    /\ pc = "decode"
    /\ arg \in RawTokens
    /\ result = <<>>
    /\ json_input = <<>>
    /\ blank = NoReader
    /\ today = <<1, 1, 1970>>
    /\ data = <<>>
    /\ pdf_reader = NoReader
    /\ field_mapping = <<>>
    /\ i = 1
    /\ filled_count = 0
    /\ failed_count = 0
    /\ fill_ok = FALSE
    /\ report = <<>>
    /\ pdf_before = NoReader
    /\ calls = <<>>
    /\ output = <<>>
    /\ field_values = <<>>
    /\ visited = <<>>

\* decode_unicode_field_name applied to a raw token
DecodeFieldName ==
    /\ pc = "decode"
    /\ result' = << decode_unicode_field_name(arg) >>
    /\ pc' = "decoded"
    /\ UNCHANGED <<arg, json_input, blank, today, data, pdf_reader, field_mapping,
                   i, filled_count, failed_count, fill_ok, report, pdf_before,
                   calls, output, field_values, visited>>

\* decode_unicode_field_name applied to the name it returned
DecodeAgain ==
    /\ pc = "decoded"
    /\ result' = Append(result, decode_unicode_field_name(result[1]))
    /\ pc' = "decoded_again"
    /\ UNCHANGED <<arg, json_input, blank, today, data, pdf_reader, field_mapping,
                   i, filled_count, failed_count, fill_ok, report, pdf_before,
                   calls, output, field_values, visited>>

NextDecode == DecodeFieldName \/ DecodeAgain

SpecDecode == InitDecode /\ [][NextDecode]_vars

\* the token is of the form <FEFF...>
IsHexToken(token) == StartsWith(token, FEFF) /\ EndsWith(token, <<">">>)

HexContent(token) == SubSeq(token, 6, Len(token) - 1)

\* the content is a run of units of four hex digits
WellFormed(content) ==
    /\ Len(content) % 4 = 0
    /\ \A k \in 1..Len(content) : content[k] \in HexDigits

\* the characters the 16-bit units of a well-formed content encode
RECURSIVE UnitsOf(_)
UnitsOf(content) ==
    IF content = <<>> THEN <<>>
    ELSE << Chr(HexNat(SubSeq(content, 1, 4))) >>
         \o UnitsOf(SubSeq(content, 5, Len(content)))

\* C11 as stated: decode_unicode_field_name returns a string for every raw
\* token; for a token <FEFF...> it returns the characters of the 4-digit
\* units, and the raw token itself when the content holds a character that
\* is no hex digit or ends in a unit of fewer than 4 digits.
C11_Original ==
    (pc = "decoded" /\ IsHexToken(arg)) =>
        /\ Len(result) = 1
        /\ result[1] = IF WellFormed(HexContent(arg))
                       THEN UnitsOf(HexContent(arg))
                       ELSE arg

\* a name that no branch of the decoding changes
IsPlain(x) ==
    /\ ~IsHexToken(x)
    /\ ~(StartsWith(x, <<"(">>) /\ EndsWith(x, <<")">>))

\* C12 as stated: every name that is the output of a decoding is decoded to
\* itself: decode(decode(raw)) = decode(raw).
C12_Original ==
    pc = "decoded_again" => result[2] = result[1]

\* C12, amended: a name that is not of the form <FEFF...> and is not
\* enclosed in parentheses is decoded to itself; for a raw token whose
\* decoding is such a name, decode(decode(raw)) = decode(raw).
C12_IdempotentOnPlainNames ==
    /\ (pc = "decoded" /\ IsPlain(arg)) => result[1] = arg
    /\ (pc = "decoded_again" /\ IsPlain(result[1])) => result[2] = result[1]

\* "(aa)" has been decoded to "aa", and "aa" to itself
C12_Witness ==
    /\ pc = "decoded_again"
    /\ arg = <<"(", "a", "a", ")">>
    /\ result = << <<"a", "a">>, <<"a", "a">> >>

-----------------------------------------------------------------------------
(* split_date on its own *)

MaxDate == 6

DateAlphabet == {"/", "-", "0", "1", "5", "a"}

InitDate ==
    /\ pc = "split_date"
    /\ arg \in StringsUpTo(DateAlphabet, MaxDate)
    /\ result = <<>>
    /\ json_input = <<>>
    /\ blank = NoReader
    /\ today = <<1, 1, 1970>>
    /\ data = <<>>
    /\ pdf_reader = NoReader
    /\ field_mapping = <<>>
    /\ i = 1
    /\ filled_count = 0
    /\ failed_count = 0
    /\ fill_ok = FALSE
    /\ report = <<>>
    /\ pdf_before = NoReader
    /\ calls = <<>>
    /\ output = <<>>
    /\ field_values = <<>>
    /\ visited = <<>>

\* split_date applied to a str
SplitDate ==
    /\ pc = "split_date"
    /\ result' = << split_date(arg) >>
    /\ pc' = "returned"
    /\ UNCHANGED <<arg, json_input, blank, today, data, pdf_reader, field_mapping,
                   i, filled_count, failed_count, fill_ok, report, pdf_before,
                   calls, output, field_values, visited>>

NextDate == SplitDate

SpecDate == InitDate /\ [][NextDate]_vars

\* the parts of a str between its '/', or between its '-' when it has no '/'
DateParts(date_str) ==
    IF Contains(date_str, "/") THEN Split(date_str, "/")
    ELSE IF Contains(date_str, "-") THEN Split(date_str, "-")
    ELSE << date_str >>

AllDigits(s) == s # <<>> /\ \A k \in 1..Len(s) : s[k] \in Digits

\* a date of three parts: digits between two separators
IsDate(date_str) ==
    /\ Len(DateParts(date_str)) = 3
    /\ \A k \in 1..3 : AllDigits(DateParts(date_str)[k])

\* a number padded with a zero to two characters
Padded(s) == IF Len(s) = 1 THEN <<"0">> \o s ELSE s

\* C13 as stated: for a date of three parts split_date returns the month and
\* the day padded to two characters and a year of four characters, a year yy
\* of two digits becoming 19yy if yy > 50 and 20yy otherwise; for an input
\* that has not three parts it returns ("01", "01", "1970").
C13_Original ==
    pc = "returned" =>
        LET parts == DateParts(arg)
            r == result[1]
        IN  /\ IsDate(arg) =>
                /\ r[1] = Padded(parts[1])
                /\ r[2] = Padded(parts[2])
                /\ Len(r[3]) = 4
                /\ Len(parts[3]) = 2 =>
                       r[3] = IF 10 * DigitVal(parts[3][1]) + DigitVal(parts[3][2]) > 50
                              THEN <<"1", "9">> \o parts[3]
                              ELSE <<"2", "0">> \o parts[3]
            /\ Len(parts) # 3 => r = Sentinel

-----------------------------------------------------------------------------
(* handle_email_overflow on its own and in create_field_mapping *)

MaxEmail == 22

EmailAlphabet == <<"a", "@", "b">>

\* the emails of up to MaxEmail characters that repeat a@b from some place on
Emails ==
    { [k \in 1..n |-> EmailAlphabet[((k + p) % 3) + 1]] :
          n \in 0..MaxEmail, p \in 0..2 }

InitEmail ==
    /\ pc = "email"
    /\ arg \in Emails
    /\ result = <<>>
    /\ json_input = [veteran_info |-> [CompleteVeteranInfo EXCEPT !.email = arg]]
    /\ data = json_input
    /\ today \in Todays
    /\ blank = NoReader
    /\ pdf_reader = NoReader
    /\ field_mapping = <<>>
    /\ i = 1
    /\ filled_count = 0
    /\ failed_count = 0
    /\ fill_ok = FALSE
    /\ report = <<>>
    /\ pdf_before = NoReader
    /\ calls = <<>>
    /\ output = <<>>
    /\ field_values = <<>>
    /\ visited = <<>>

\* handle_email_overflow applied to the email, before the record is mapped
HandleEmailOverflow ==
    /\ pc = "email"
    /\ result' = << handle_email_overflow(arg) >>
    /\ pc' = "create_mapping"
    /\ UNCHANGED <<arg, json_input, blank, today, data, pdf_reader, field_mapping,
                   i, filled_count, failed_count, fill_ok, report, pdf_before,
                   calls, output, field_values, visited>>

NextEmail == HandleEmailOverflow \/ CreateFieldMapping

SpecEmail == InitEmail /\ [][NextEmail]_vars

\* C14: handle_email_overflow(s) returns (remainder, first_chunk):
\* first_chunk is the first min(len(s), 20) characters of s, remainder the
\* rest, first_chunk + remainder is s, and remainder is empty exactly when
\* len(s) <= 20; in the map of create_field_mapping first_chunk is at
\* EMAIL_ADDRESS[1] and remainder at EMAIL_ADDRESS[0].
C14_EmailSplitAtTwenty ==
    result # <<>> =>
        LET remainder == result[1][1]
            first_chunk == result[1][2]
            n == IF Len(arg) < 20 THEN Len(arg) ELSE 20
        IN  /\ first_chunk = SubSeq(arg, 1, n)
            /\ remainder = SubSeq(arg, n + 1, Len(arg))
            /\ first_chunk \o remainder = arg
            /\ (remainder = <<>>) <=> (Len(arg) <= 20)
            /\ Mapped =>
                   /\ ValueAt(Page1("EMAIL_ADDRESS[1]")) = first_chunk
                   /\ ValueAt(Page1("EMAIL_ADDRESS[0]")) = remainder

\* an email of 21 characters has been split and mapped
C14_Witness ==
    /\ Mapped
    /\ Len(arg) = 21
    /\ Len(ValueAt(Page1("EMAIL_ADDRESS[1]"))) = 20
    /\ ValueAt(Page1("EMAIL_ADDRESS[0]")) = << arg[21] >>

-----------------------------------------------------------------------------
(* Claims on the order of main *)

\* C15: save_filled_form is called only after the blank form was loaded, the
\* validation passed and fill_form returned; fill_form returns True when
\* some or all entries were not found or failed, what it applied stays
\* applied, and main then calls save_filled_form on the document as filled.
C15_PartialFillIsSaved ==
    /\ Called("save_filled_form") =>
           /\ calls = <<"load_json_input", "load_blank_form", "validate_json_input",
                        "create_field_mapping", "fill_form", "save_filled_form">>
           /\ blank.loaded
           /\ validate_json_input(data)
           /\ fill_ok
           /\ output \in { <<>>, << pdf_reader >> }
    /\ (pc = "fill_returned" /\ blank.AcroForm) => fill_ok
    /\ (pc = "exit" /\ Called("fill_form") /\ fill_ok) => Called("save_filled_form")
    /\ Filled =>
           \A k \in AppliedRows :
               LET f == FirstNode(pdf_reader.Fields, report[k].name)
                   value == ValueAt(report[k].name)
               IN  f.V = IF f.FT = Btn THEN PdfName(ReplaceSlash(value)) ELSE value

\* a document on which some entries were applied and others not found has
\* been saved
C15_Witness ==
    /\ pc = "exit"
    /\ Called("save_filled_form")
    /\ filled_count > 0
    /\ failed_count > 0
    /\ output = << pdf_reader >>
    /\ pdf_reader # blank

-----------------------------------------------------------------------------
(* Claims on duplicate names in the path index *)

\* the visits j < k are of two fields of one list whose /T decode to the same
\* name, and no later field of the list has this name
LastOfDuplicates(j, k) ==
    /\ j < k
    /\ ParentOf(visited[j].node) = ParentOf(visited[k].node)
    /\ NodeAt(blank.Fields, visited[j].node).T # <<>>
    /\ NodeAt(blank.Fields, visited[k].node).T # <<>>
    /\ decode_unicode_field_name(NodeAt(blank.Fields, visited[j].node).T)
           = decode_unicode_field_name(NodeAt(blank.Fields, visited[k].node).T)
    /\ \A h \in (k + 1)..Len(visited) :
           ParentOf(visited[h].node) = ParentOf(visited[k].node)
               => visited[h].full_path # visited[k].full_path

-----------------------------------------------------------------------------
(* enhanced_field_discovery.py and pdf_field_discovery.py: the listings *)

\* an item of /Fields or of /Kids that is no dictionary (a null object): any
\* attribute read on it raises AttributeError
NullItem == [null |-> TRUE]

IsDict(field) == "T" \in DOMAIN field

\* the code points chr() gives that no UTF-8 text can hold
Surrogates == { Chr(n) : n \in 55296..57343 }

\* print(text) on a UTF-8 stdout returns: it raises UnicodeEncodeError on a
\* lone surrogate
PrintOk(text) == \A k \in 1..Len(text) : text[k] \notin Surrogates

\* a name that is the same for every field without /T
SynthesizedNameFixed(fields_info) == <<"unnamed_field_", "0">>

\* enhanced_field_discovery.py line 83: f"unnamed_field_{len(fields_info)}"
SynthesizedName(fields_info) == <<"unnamed_field_">> \o StrOfNat(Len(fields_info))

\* the options of a group read from its children, as analyze_field reads them
OptionsFromKids(field) ==
    LET with_state == SelectSeq(field.Kids, LAMBDA kid : Truthy(kid.AS))
    IN  [k \in 1..Len(with_state) |-> with_state[k].AS]

\* enhanced_field_discovery.py line 116: field_info["options"] = []
GroupOptions(field) == <<>>

\* lines 91-103: the dict appended to fields_info; node is the place of the
\* field in the tree, kept to tell which field an entry was computed from
FieldInfo(field, level, parent_name, field_name, full_name, node) ==
    [level |-> level,
     parent |-> parent_name,
     field_name |-> field_name,
     full_path |-> full_name,
     field_type |-> IF Truthy(field.FT) THEN field.FT ELSE <<"Unknown">>,
     field_flags |-> IF Truthy(field.Ff) THEN field.Ff ELSE <<"None">>,
     default_value |-> field.DV,
     current_value |-> field.V,
     max_length |-> IF Truthy(field.MaxLen) THEN field.MaxLen ELSE <<"No limit">>,
     has_children |-> Truthy(field.Kids),
     child_count |-> Len(field.Kids),
     button_type |-> None,
     has_options |-> FALSE,
     options |-> <<>>,
     node |-> node]

\* lines 112-124: what the type of the field adds to its dict
Classified(field, field_info) ==
    IF field.FT = Btn
    THEN IF Truthy(field.Kids)
         THEN [field_info EXCEPT !.button_type = <<"Radio Button Group">>,
                                 !.has_options = TRUE,
                                 !.options = GroupOptions(field)]
         ELSE [field_info EXCEPT !.button_type = <<"Checkbox">>]
    ELSE IF field.FT = Ch
         THEN IF Truthy(field.Opt)
              THEN [field_info EXCEPT !.field_type = <<"Choice Field">>,
                                      !.has_options = TRUE,
                                      !.options = field.Opt]
              ELSE [field_info EXCEPT !.field_type = <<"Choice Field">>]
         ELSE field_info

\* analyze_field_recursive, lines 74-131, and the loop that calls it (lines
\* 127-128 and 66-67) from its k-th field on.  The result is fields_info
\* after the call.  An exception leaves the try block where it is raised:
\* at line 80 for an item that is no dictionary, at line 110 for a path that
\* cannot be printed.
RECURSIVE analyze_field_recursive(_, _, _, _, _)
RECURSIVE AnalyzeFields(_, _, _, _, _, _)
analyze_field_recursive(field, fields_info, level, parent_name, node) ==
    IF ~IsDict(field) THEN fields_info
    ELSE
    LET field_name ==
            IF Truthy(field.T) THEN decode_unicode_field_name(field.T)
            ELSE SynthesizedName(fields_info)
        full_name ==
            IF Truthy(parent_name) THEN parent_name \o Dot \o field_name
            ELSE field_name
        field_info == FieldInfo(field, level, parent_name, field_name, full_name, node)
    IN  IF ~PrintOk(full_name) THEN Append(fields_info, field_info)
        ELSE AnalyzeFields(field.Kids,
                           Append(fields_info, Classified(field, field_info)),
                           level + 1, full_name, node, 1)

AnalyzeFields(fields, fields_info, level, parent_name, pos, k) ==
    IF k > Len(fields) THEN fields_info
    ELSE AnalyzeFields(fields,
                       analyze_field_recursive(fields[k], fields_info, level,
                                               parent_name, pos \o <<k>>),
                       level, parent_name, pos, k + 1)

\* pdf_field_discovery.py lines 50-87: analyze_field; ok = FALSE when it
\* returned None after an exception (the field or, at line 72, a child of a
\* Button is no dictionary)
analyze_field(field, index) ==
    IF ~IsDict(field) THEN [ok |-> FALSE]
    ELSE IF field.FT = Btn /\ \E k \in 1..Len(field.Kids) : ~IsDict(field.Kids[k])
    THEN [ok |-> FALSE]
    ELSE
    [ok |-> TRUE,
     index |-> index,
     internal_name |-> IF Truthy(field.T) THEN field.T
                       ELSE <<"field_">> \o StrOfNat(index),
     field_type |-> IF field.FT = Ch THEN <<"Choice Field">>
                    ELSE IF Truthy(field.FT) THEN field.FT ELSE <<"Unknown">>,
     button_type |-> IF field.FT = Btn
                     THEN IF Truthy(field.Kids) THEN <<"Radio Button Group">>
                          ELSE <<"Checkbox">>
                     ELSE None,
     has_options |-> \/ field.FT = Btn /\ Truthy(field.Kids)
                     \/ field.FT = Ch /\ Truthy(field.Opt),
     options |-> IF field.FT = Btn /\ Truthy(field.Kids) THEN OptionsFromKids(field)
                 ELSE IF field.FT = Ch THEN field.Opt ELSE <<>>]

\* pdf_field_discovery.py lines 39-42: the loop over the top-level fields
\* from the k-th on
RECURSIVE AnalyzeTopLevel(_, _)
AnalyzeTopLevel(fields, k) ==
    IF k > Len(fields) THEN <<>>
    ELSE LET field_info == analyze_field(fields[k], k - 1)
         IN  (IF field_info.ok THEN <<field_info>> ELSE <<>>)
             \o AnalyzeTopLevel(fields, k + 1)

\* discover_pdf_fields_enhanced, lines 40-72: None when the file cannot be
\* read or holds no /AcroForm or no /Fields
DiscoverPdfFieldsEnhanced ==
    /\ pc = "discover"
    /\ pc' = "enhanced"
    /\ result' = << IF blank.loaded /\ blank.AcroForm /\ blank.HasFields
                    THEN AnalyzeFields(blank.Fields, <<>>, 0, <<>>, <<>>, 1)
                    ELSE None >>
    /\ UNCHANGED <<arg, json_input, blank, today, data, pdf_reader, field_mapping,
                   i, filled_count, failed_count, fill_ok, report, pdf_before,
                   calls, output, field_values, visited>>

\* discover_pdf_fields, pdf_field_discovery.py lines 12-48
DiscoverPdfFields ==
    /\ pc = "discover"
    /\ pc' = "listed"
    /\ result' = << IF blank.loaded /\ blank.AcroForm /\ blank.HasFields
                    THEN AnalyzeTopLevel(blank.Fields, 1)
                    ELSE None >>
    /\ UNCHANGED <<arg, json_input, blank, today, data, pdf_reader, field_mapping,
                   i, filled_count, failed_count, fill_ok, report, pdf_before,
                   calls, output, field_values, visited>>

-----------------------------------------------------------------------------
(* The discovery scripts run on any document *)

MaxDiscoveryNodes == 3

NameSynthesized == <<"(", "unnamed_field_", "0", ")">>
NameSurrogate == <<"<", "F", "E", "F", "F", "D", "8", "0", "0", ">">>
Yes == <<"/", "1">>

\* the kinds of fields of a discovered tree: those of FieldKinds, a field
\* whose name is a synthesized one, a field whose name decodes to a lone
\* surrogate, and a second Button with another state
DiscoveryKinds ==
    FieldKinds \cup { [NoField EXCEPT !.T = NameSynthesized, !.FT = Tx],
                      [NoField EXCEPT !.T = NameSurrogate, !.FT = Btn],
                      [NoField EXCEPT !.FT = Btn, !.AS = Yes] }

\* every list of exactly n items, each a field of a kind of kinds with its
\* children, or an item that is no dictionary
RECURSIVE DiscoveryTrees(_, _)
DiscoveryTrees(kinds, n) ==
    IF n = 0 THEN { <<>> }
    ELSE { <<NullItem>> \o rest : rest \in DiscoveryTrees(kinds, n - 1) }
         \cup
         UNION { { <<[k EXCEPT !.Kids = kids]>> \o rest :
                     k \in kinds,
                     kids \in DiscoveryTrees(kinds, a),
                     rest \in DiscoveryTrees(kinds, n - 1 - a) } : a \in 0..(n - 1) }

InitDiscovery ==
    /\ pc = "discover"
    /\ json_input = <<>>
    /\ blank \in { Reader(FALSE, FALSE, FALSE, <<>>), Reader(TRUE, FALSE, FALSE, <<>>),
                   Reader(TRUE, TRUE, FALSE, <<>>) }
                 \cup { Reader(TRUE, TRUE, TRUE, t) :
                          t \in UNION { DiscoveryTrees(DiscoveryKinds, m) :
                                          m \in 0..MaxDiscoveryNodes } }
    /\ today = <<1, 1, 1970>>
    /\ data = <<>>
    /\ pdf_reader = NoReader
    /\ field_mapping = <<>>
    /\ i = 1
    /\ filled_count = 0
    /\ failed_count = 0
    /\ fill_ok = FALSE
    /\ report = <<>>
    /\ pdf_before = NoReader
    /\ calls = <<>>
    /\ output = <<>>
    /\ field_values = <<>>
    /\ visited = <<>>
    /\ arg = <<>>
    /\ result = <<>>

NextDiscovery == DiscoverPdfFieldsEnhanced \/ DiscoverPdfFields

SpecDiscovery == InitDiscovery /\ [][NextDiscovery]_vars

-----------------------------------------------------------------------------
(* Claims on the names synthesized by analyze_field_recursive *)

Listed == pc = "enhanced" /\ blank.loaded /\ blank.AcroForm /\ blank.HasFields

\* the list discover_pdf_fields_enhanced returned
Listing == result[1]

\* the field the j-th entry of the listing was computed from
ListedField(j) == NodeAt(blank.Fields, Listing[j].node)

\* the j-th entry is of a field without /T
IsSynthesized(j) == ~Truthy(ListedField(j).T)

\* two entries of fields of one list
ListedSiblings(j, k) ==
    j # k /\ ParentOf(Listing[j].node) = ParentOf(Listing[k].node)

\* a field without /T is named unnamed_field_<n>, n the number of entries
\* listed before its own
SynthesizedFromCount ==
    \A j \in 1..Len(Listing) :
        IsSynthesized(j) =>
            Listing[j].field_name = <<"unnamed_field_">> \o StrOfNat(j - 1)

\* C17 as stated: a field without /T is named unnamed_field_<n>, n counting
\* the fields listed so far, and in one list a synthesized name never equals
\* the name of a sibling, named or synthesized.
C17_Original ==
    Listed =>
        /\ SynthesizedFromCount
        /\ \A j, k \in 1..Len(Listing) :
               (ListedSiblings(j, k) /\ IsSynthesized(j))
                   => Listing[j].field_name # Listing[k].field_name

\* C17, amended: a field without /T is named unnamed_field_<n>, n counting
\* the fields listed so far; no two synthesized names of the listing are
\* equal, and a synthesized name equals the name of a named sibling only
\* when that sibling's own /T decodes to a name that begins unnamed_field_.
C17_SynthesizedNamesDiffer ==
    Listed =>
        /\ SynthesizedFromCount
        /\ \A j, k \in 1..Len(Listing) :
               (j # k /\ IsSynthesized(j) /\ IsSynthesized(k))
                   => Listing[j].field_name # Listing[k].field_name
        /\ \A j, k \in 1..Len(Listing) :
               (ListedSiblings(j, k) /\ IsSynthesized(j) /\ ~IsSynthesized(k)
                    /\ Listing[j].field_name = Listing[k].field_name)
                   => Head(decode_unicode_field_name(ListedField(k).T))
                          = "unnamed_field_"

\* two top-level fields without /T, the first with a child: they are named
\* unnamed_field_0 and unnamed_field_2
C17_Witness ==
    /\ Listed
    /\ Len(Listing) = 3
    /\ ListedSiblings(1, 3)
    /\ IsSynthesized(1)
    /\ IsSynthesized(3)
    /\ Listing[1].field_name = <<"unnamed_field_", "0">>
    /\ Listing[3].field_name = <<"unnamed_field_", "2">>

-----------------------------------------------------------------------------
(* Claims on the exceptions caught by analyze_field_recursive *)

\* processing the item raises: it is no dictionary (line 80), or the name
\* its /T decodes to cannot be printed (line 110)
Raises(field) ==
    \/ ~IsDict(field)
    \/ Truthy(field.T) /\ ~PrintOk(decode_unicode_field_name(field.T))

\* the places of the tree in depth-first order, siblings in stored order,
\* without the items that raise and without what is below them
RECURSIVE NodesWithoutRaising(_, _, _)
NodesWithoutRaising(fields, pos, k) ==
    IF k > Len(fields) THEN <<>>
    ELSE (IF Raises(fields[k]) THEN <<>>
          ELSE << pos \o <<k>> >>
               \o NodesWithoutRaising(fields[k].Kids, pos \o <<k>>, 1))
         \o NodesWithoutRaising(fields, pos, k + 1)

ListedNodes == [j \in 1..Len(Listing) |-> Listing[j].node]

\* C18 as stated: when processing a node raises, the exception is caught,
\* the node and its whole subtree are absent from the listing, every other
\* node is listed in depth-first sibling order, and the build completes.
C18_Original ==
    Listed => ListedNodes = NodesWithoutRaising(blank.Fields, <<>>, 1)

-----------------------------------------------------------------------------
(* Claims on the classification of Button fields *)

\* the selection states of the children of a field that have one, in the
\* order of the children
KidStates(field) ==
    LET with_state ==
            SelectSeq(field.Kids, LAMBDA kid : IsDict(kid) /\ Truthy(kid.AS))
    IN  [k \in 1..Len(with_state) |-> with_state[k].AS]

\* an entry of a Button: a group with the states of its children when it has
\* children, a checkbox when it has none
ClassifiedAsButton(field, field_info) ==
    IF Truthy(field.Kids)
    THEN /\ field_info.button_type = <<"Radio Button Group">>
         /\ field_info.has_options
         /\ field_info.options = KidStates(field)
    ELSE field_info.button_type = <<"Checkbox">>

\* discover_pdf_fields returned the list of the top-level fields
TopLevelListed == pc = "listed" /\ blank.loaded /\ blank.AcroForm /\ blank.HasFields

\* C19 as stated: in both listings a Button with children is a group whose
\* options are, in child order, the selection states of the children that
\* have one, and a Button without children is a checkbox.
C19_Original ==
    /\ Listed =>
           \A j \in 1..Len(Listing) :
               (ListedField(j).FT = Btn /\ ~Raises(ListedField(j)))
                   => ClassifiedAsButton(ListedField(j), Listing[j])
    /\ TopLevelListed =>
           \A j \in 1..Len(Listing) :
               blank.Fields[Listing[j].index + 1].FT = Btn
                   => ClassifiedAsButton(blank.Fields[Listing[j].index + 1],
                                         Listing[j])

-----------------------------------------------------------------------------
(* Claims on the fields find_and_fill_field writes *)

\* the places of the fields that have a name and whose ancestors all have
\* one, in depth-first pre-order from the k-th field on, each with the
\* dotted path of its decoded names
RECURSIVE NamedPlaces(_, _, _, _)
NamedPlaces(fields, parent_path, pos, k) ==
    IF k > Len(fields) THEN <<>>
    ELSE LET f == fields[k]
             name == decode_unicode_field_name(f.T)
             path == IF parent_path = <<>> THEN name
                     ELSE parent_path \o <<".">> \o name
         IN  (IF f.T = <<>> THEN <<>>
              ELSE << [path |-> path, node |-> pos \o <<k>>] >>
                   \o NamedPlaces(f.Kids, path, pos \o <<k>>, 1))
             \o NamedPlaces(fields, parent_path, pos, k + 1)

\* the place of the first field in pre-order with this path, if there is one
FirstPlace(fields, path) ==
    LET places == NamedPlaces(fields, <<>>, <<>>, 1)
    IN  { places[j].node :
            j \in { h \in 1..Len(places) :
                      /\ places[h].path = path
                      /\ \A g \in 1..(h - 1) : places[g].path # path } }

\* the places of the fields that are not as they were, their children set
\* aside
RECURSIVE ChangedPlaces(_, _, _)
ChangedPlaces(before, after, pos) ==
    UNION { (IF [after[k] EXCEPT !.Kids = before[k].Kids] # before[k]
             THEN { pos \o <<k>> } ELSE {})
            \cup ChangedPlaces(before[k].Kids, after[k].Kids, pos \o <<k>>) :
            k \in 1..Len(before) }

\* C20: one iteration of fill_form writes at most one field, the first in
\* depth-first pre-order whose dotted path of decoded names is the key of
\* the entry; a field at or below a field without a name, and a later field
\* with the same path, are never written.
C20_OnlyFirstMatchWritten ==
    [][ (pc = "fill_loop" /\ i' = i + 1) =>
            /\ Len(pdf_reader'.Fields) = Len(pdf_reader.Fields)
            /\ ChangedPlaces(pdf_reader.Fields, pdf_reader'.Fields, <<>>)
                   \subseteq FirstPlace(pdf_reader.Fields, field_mapping[i].name) ]_vars

\* the first entry was a, two top-level fields have the path a: the first of
\* them was written, the second was not
C20_Witness ==
    /\ pc = "fill_loop"
    /\ i = 2
    /\ field_mapping[1].name = <<"a">>
    /\ Len(pdf_before.Fields) = 2
    /\ FirstPlace(pdf_before.Fields, <<"a">>) = { <<1>> }
    /\ decode_unicode_field_name(pdf_before.Fields[2].T) = <<"a">>
    /\ ChangedPlaces(pdf_before.Fields, pdf_reader.Fields, <<>>) = { <<1>> }

====
